---- MODULE Spec2Model ----
(***************************************************************************)
(* A model of mcp_process_manager: the RingBuffer (ring_buffer.py), the    *)
(* ProcessHandler with its two reader threads and its processor thread     *)
(* (process_handler.py), and the ProcessManager registry                   *)
(* (process_manager.py).                                                   *)
(*                                                                         *)
(* Several specifications share the definitions:                          *)
(*   SpecBuf  a RingBuffer driven by append / clear;                       *)
(*   Spec     one ProcessHandler driven through its public methods, with   *)
(*            the operating-system process and the three pipeline threads  *)
(*            interleaved;                                                 *)
(*   SpecMgr  a ProcessManager driving the handlers it creates, whose      *)
(*            processes write nothing and whose readers meet no fault.     *)
(*   SpecBufQuery, SpecQuery  the same with the reads of the buffer and of *)
(*            the manager, whose return values are recorded;               *)
(*   SpecLocks   the threads of the program as sequences of lock steps;    *)
(*   SpecPipe, SpecDrain, SpecEcho  one started handler whose process      *)
(*            writes text, writes and exits, or echoes what it is sent.    *)
(*   SpecStop    one started handler that is killed and cleaned up;        *)
(*   SpecBufLog  a RingBuffer whose last appended line is remembered.      *)
(***************************************************************************)
EXTENDS Integers, Sequences, FiniteSets, TLC

VARIABLES
    rb,         \* SpecBuf: a RingBuffer object
    rb_ops,     \* SpecBuf: number of mutating calls made on rb
    handlers,   \* handler id -> ProcessHandler object with its process and threads
    processes,  \* ProcessManager.processes: pid -> handler id
    caller,     \* the calling thread: idle, or inside the wait loop of a kill
    killed,     \* history: the handlers on which a kill of a Running session succeeded
    nwritten,   \* bytes the processes have written so far
    nfaults,    \* reader I/O faults so far
    query,      \* the last read of the buffer or of the manager and its return value
    threads     \* SpecLocks: thread -> the locks it holds and the rest of its call

vars == <<rb, rb_ops, handlers, processes, caller, killed, nwritten, nfaults, query, threads>>

---------------------------------------------------------------------------
(* Bounds of the model. *)

RbMaxSize == 3
\* max_size_bytes of the RingBuffer of SpecBuf
MaxLineLen == 4
\* characters in a line appended in SpecBuf
MaxAppends == 3
\* mutating calls on the RingBuffer of SpecBuf
BufferSize == 3
\* buffer_size the handlers are constructed with
MaxOut == 1
\* bytes written by the processes of Spec, in total
MaxFaults == 1
\* reader I/O faults in Spec, in total
MaxStarts == 2
\* process_start calls that create a handler in SpecMgr
NumPids == 2
\* process ids the operating system hands out
MaxStdin == 2
\* bytes on a process's input stream after which SpecIO sends it no more
MaxQueryLines == 2
\* lines in the buffer of a session of SpecQuery
QueryBufferSize == 16
\* buffer_size of the sessions of SpecQuery
MaxPipeOut == 3
\* characters written by the process of SpecPipe
MaxEcho == 2
\* bytes sent to the process of SpecEcho after which it is sent no more
MaxQueryStdin == 1
\* bytes on the input streams of SpecQuery after which it sends no more

---------------------------------------------------------------------------
(* Python's None, and optional values. *)

None == <<>>
Some(x) == <<x>>
\* None where a str is expected, which the model must tell from the empty str
NoPattern == <<"None">>

(* Text.  A str is a sequence of characters, a bytes object a sequence of  *)
(* bytes.  The characters: "a" (1 byte in UTF-8), "\n" (1 byte), "e'" is   *)
(* U+00E9 (2 bytes, C3 A9) and "?" is U+FFFD, the replacement character    *)
(* (3 bytes, EF BF BD); "E", "R", "O", ":", " " and "(" are ASCII, 1 byte   *)
(* each.                                                                   *)

Chars == {"a", "\n", "e'", "?", "E", "R", "O", ":", " ", "("}
Bytes == {"61", "0A", "C3", "A9", "EF", "BF", "BD", "45", "52", "4F", "3A", "20", "28"}

encode_char(c) ==
    CASE c = "a"  -> <<"61">>
      [] c = "\n" -> <<"0A">>
      [] c = "E"  -> <<"45">>
      [] c = "R"  -> <<"52">>
      [] c = "O"  -> <<"4F">>
      [] c = ":"  -> <<"3A">>
      [] c = " "  -> <<"20">>
      [] c = "("  -> <<"28">>
      [] c = "e'" -> <<"C3", "A9">>
      [] c = "?"  -> <<"EF", "BF", "BD">>

RECURSIVE encode(_)
\* str.encode('utf-8')
encode(str) ==
    IF str = <<>> THEN <<>> ELSE encode_char(Head(str)) \o encode(Tail(str))

RECURSIVE decode(_)
\* bytes.decode('utf-8', errors='replace'): every maximal ill-formed
\* subsequence becomes one U+FFFD.
decode(b) ==
    IF b = <<>> THEN <<>>
    ELSE IF b[1] = "61" THEN <<"a">> \o decode(Tail(b))
    ELSE IF b[1] = "0A" THEN <<"\n">> \o decode(Tail(b))
    ELSE IF b[1] = "45" THEN <<"E">> \o decode(Tail(b))
    ELSE IF b[1] = "52" THEN <<"R">> \o decode(Tail(b))
    ELSE IF b[1] = "4F" THEN <<"O">> \o decode(Tail(b))
    ELSE IF b[1] = "3A" THEN <<":">> \o decode(Tail(b))
    ELSE IF b[1] = "20" THEN <<" ">> \o decode(Tail(b))
    ELSE IF b[1] = "28" THEN <<"(">> \o decode(Tail(b))
    ELSE IF b[1] = "C3" /\ Len(b) >= 2 /\ b[2] = "A9"
        THEN <<"e'">> \o decode(SubSeq(b, 3, Len(b)))
    ELSE IF b[1] = "EF" /\ Len(b) >= 3 /\ b[2] = "BF" /\ b[3] = "BD"
        THEN <<"?">> \o decode(SubSeq(b, 4, Len(b)))
    ELSE IF b[1] = "EF" /\ Len(b) >= 2 /\ b[2] = "BF"
        THEN <<"?">> \o decode(SubSeq(b, 3, Len(b)))
    ELSE <<"?">> \o decode(Tail(b))

\* seq[-n:] for n > 0
LastN(seq, n) ==
    IF Len(seq) <= n THEN seq ELSE SubSeq(seq, Len(seq) - n + 1, Len(seq))

RECURSIVE SumBytes(_)
\* sum of the UTF-8 byte lengths of the lines of a buffer
SumBytes(lines) ==
    IF lines = <<>> THEN 0 ELSE Len(encode(Head(lines))) + SumBytes(Tail(lines))

---------------------------------------------------------------------------
(* RingBuffer (ring_buffer.py).  An object is a record. *)

RingBuffer(max_size_bytes) ==
    [max_size_bytes |-> max_size_bytes, buffer |-> <<>>, current_size |-> 0]

\* an eviction that empties the buffer as soon as the new entry does not
\* fit; C37 tells it from evict
evict_all(b, data_size) ==
    IF b.current_size + data_size > b.max_size_bytes /\ b.buffer # <<>>
    THEN [b EXCEPT !.buffer = <<>>, !.current_size = 0]
    ELSE b

RECURSIVE evict(_, _)
\* the while loop of append: popleft until the new entry fits or the deque is empty
evict(b, data_size) ==
    IF b.current_size + data_size > b.max_size_bytes /\ b.buffer # <<>>
    THEN evict([b EXCEPT !.buffer = Tail(b.buffer),
                         !.current_size = b.current_size - Len(encode(Head(b.buffer)))],
               data_size)
    ELSE b

\* the truncation step of append: data[-max_size_bytes:] slices characters
truncate(b, data) ==
    IF Len(encode(data)) > b.max_size_bytes
    THEN [data |-> LastN(data, b.max_size_bytes), data_size |-> b.max_size_bytes]
    ELSE [data |-> data, data_size |-> Len(encode(data))]

append(b, data) ==
    LET t == truncate(b, data)
        e == evict(b, t.data_size)
    IN  [e EXCEPT !.buffer = Append(e.buffer, t.data),
                  !.current_size = e.current_size + t.data_size]

clear(b) == [b EXCEPT !.buffer = <<>>, !.current_size = 0]

\* a get_lines that returns the oldest max_lines entries; C22 tells it from
\* get_lines
get_lines_oldest(b, max_lines) ==
    IF max_lines <= 0 \/ Len(b.buffer) <= max_lines THEN b.buffer
    ELSE SubSeq(b.buffer, 1, max_lines)

get_lines(b, max_lines) ==
    IF max_lines <= 0 THEN b.buffer ELSE LastN(b.buffer, max_lines)

\* "ERROR: " followed by a message; the message is kept as one element
ERROR_PREFIX == <<"E", "R", "R", "O", "R", ":">>
ErrorMessage(msg) == ERROR_PREFIX \o <<" ", msg>>
\* line.startswith("ERROR:")
StartsWithError(line) == Len(line) >= 6 /\ SubSeq(line, 1, 6) = ERROR_PREFIX

\* search_str in line
Contains(line, search_str) ==
    \E i \in 1..(Len(line) - Len(search_str) + 1) :
        SubSeq(line, i, i + Len(search_str) - 1) = search_str

RECURSIVE strip(_)
\* line.strip(): without the white space at its ends
strip(line) ==
    IF line = <<>> THEN line
    ELSE IF Head(line) \in {" ", "\n"} THEN strip(Tail(line))
    ELSE IF line[Len(line)] \in {" ", "\n"} THEN strip(SubSeq(line, 1, Len(line) - 1))
    ELSE line

\* The patterns of the model are made of "a", "E" and "(".  re.compile
\* rejects one with its "(" unclosed, and a pattern without "(" is a literal
\* both for re and for fnmatch, for which "(" is a literal too.
InvalidRegex(pattern) == \E i \in 1..Len(pattern) : pattern[i] = "("
\* regex_pattern.search(line)
regex_search(pattern, line) == Contains(line, pattern)
\* fnmatch.fnmatch(name, pattern)
fnmatch(name, pattern) == name = pattern

\* matches[-max_lines:], or every match for max_lines <= 0
LastMatches(matches, max_lines) ==
    IF max_lines <= 0 THEN matches ELSE LastN(matches, max_lines)

\* a search_string that returns the first max_lines matches; C23 tells it
\* from search_string
search_string_first(b, search_str, max_lines) ==
    IF search_str = NoPattern
    THEN <<ErrorMessage("Search string cannot be None")>>
    ELSE LET matches == SelectSeq(b.buffer, LAMBDA line : Contains(line, search_str))
         IN  IF max_lines <= 0 \/ Len(matches) <= max_lines THEN matches
             ELSE SubSeq(matches, 1, max_lines)

\* RingBuffer.search_string
search_string(b, search_str, max_lines) ==
    IF search_str = NoPattern
    THEN <<ErrorMessage("Search string cannot be None")>>
    ELSE LastMatches(SelectSeq(b.buffer, LAMBDA line : Contains(line, search_str)),
                     max_lines)

\* RingBuffer.search_regex.  None is not a str and is not compiled; its
\* .search raises for the first line of the buffer, if there is one.
search_regex(b, regex_pattern, max_lines) ==
    IF regex_pattern = NoPattern
    THEN IF b.buffer = <<>> THEN <<>>
         ELSE <<ErrorMessage("Error during regex search")>>
    ELSE IF InvalidRegex(regex_pattern)
    THEN <<ErrorMessage("Invalid regex pattern")>>
    ELSE LastMatches(SelectSeq(b.buffer,
                               LAMBDA line : regex_search(regex_pattern, line)),
                     max_lines)

\* RingBuffer.search_wildcard
search_wildcard(b, wildcard_pattern, max_lines) ==
    IF wildcard_pattern \in {NoPattern, <<>>}
    THEN <<ErrorMessage("Empty wildcard pattern provided")>>
    ELSE LastMatches(SelectSeq(b.buffer,
                               LAMBDA line : fnmatch(strip(line), wildcard_pattern)),
                     max_lines)

---------------------------------------------------------------------------
(* ProcessHandler (process_handler.py).  An object is a record holding the *)
(* handler's fields, the locals of its three threads, the Popen object's   *)
(* fields and the operating-system process behind it.                      *)

Sources == {"stdout", "stderr"}
OutBytes == {"61", "0A", "C3"}
\* the bytes a process may write
ExitCodes == {0, 1}
\* the exit statuses of a process that exits on its own
SIGKILL == 9
SpawnErrors == {"Command not found"}
\* what Popen may raise

\* a command argument: a Python value with its type
List(items) == [type |-> "list", value |-> items]
Str(chars) == [type |-> "str", value |-> chars]
\* not command
Falsy(command) == command.value = <<>>

Success == <<"success">>
Failed(msg) == <<"failed", msg>>
\* "success" in status
IsSuccess(status) == status[1] = "success"
\* "failed" in result
IsFailed(result) == result[1] = "failed"

\* the values of self.state
Initialized == <<"initialized">>
Running == <<"running">>
Completed == <<"completed">>
ErrorState == <<"error">>
\* f"error: Exit code {exit_code}"
ExitCodeError(exit_code) == <<"error: Exit code", exit_code>>

\* self.pid = None
NoPid == 0

\* ProcessHandler.__init__
ProcessHandler(command, buffer_size) ==
    [command      |-> command,
     process      |-> FALSE,        \* self.process is not None
     pid          |-> NoPid,
     state        |-> Initialized,
     error        |-> None,
     buffer       |-> RingBuffer(buffer_size),
     io_queue     |-> <<>>,
     stop_event   |-> FALSE,
     \* the threads: program counters and locals
     reader       |-> [src \in Sources |-> "none"],
     processor    |-> "none",
     current_line |-> <<>>,
     item         |-> None,
     \* the Popen object
     returncode   |-> None,
     stdin_open   |-> FALSE,
     stdin        |-> <<>>,         \* the bytes written to process.stdin, unread
     \* the operating-system process
     exit_status  |-> None,
     signalled    |-> FALSE,
     pipe         |-> [src \in Sources |-> <<>>]]

\* Popen.poll(): reaps the process once it has exited
poll(s) ==
    IF s.returncode = None /\ s.exit_status # None
    THEN [s EXCEPT !.returncode = s.exit_status]
    ELSE s

\* Popen.kill(): polls first, and sends nothing to a process already reaped
send_kill(s) ==
    LET p == poll(s)
    IN  IF p.returncode = None THEN [p EXCEPT !.signalled = TRUE] ELSE p

\* the state process_output and get_status store for an exit code
ExitState(exit_code) ==
    IF exit_code = 0 THEN Completed ELSE ExitCodeError(exit_code)

\* a start that marks the session running before it attempts the spawn; C8
\* tells it from start
start_marks_running(s, spawn) ==
    IF s.process
    THEN [s |-> s, ret |-> <<Failed("Process already started"), NoPid>>]
    ELSE IF Falsy(s.command)
    THEN [s |-> s, ret |-> <<Failed("Command list cannot be empty"), NoPid>>]
    ELSE IF ~spawn.ok
    THEN [s |-> [s EXCEPT !.state = Running, !.error = Some(spawn.err)],
          ret |-> <<Failed(spawn.err), NoPid>>]
    ELSE [s |-> [s EXCEPT !.process = TRUE,
                          !.stdin_open = TRUE,
                          !.pid = spawn.pid,
                          !.state = Running,
                          !.stop_event = FALSE,
                          !.reader = [src \in Sources |-> "read"],
                          !.processor = "get"],
          ret |-> <<Success, spawn.pid>>]

\* ProcessHandler.start; spawn is what Popen does: [ok |-> TRUE, pid |-> p]
\* or [ok |-> FALSE, err |-> e]
start(s, spawn) ==
    IF s.process
    THEN [s |-> s, ret |-> <<Failed("Process already started"), NoPid>>]
    ELSE IF Falsy(s.command)
    THEN [s |-> s, ret |-> <<Failed("Command list cannot be empty"), NoPid>>]
    ELSE IF ~spawn.ok
    THEN [s |-> [s EXCEPT !.state = ErrorState, !.error = Some(spawn.err)],
          ret |-> <<Failed(spawn.err), NoPid>>]
    ELSE [s |-> [s EXCEPT !.process = TRUE,
                          !.stdin_open = TRUE,
                          !.pid = spawn.pid,
                          !.state = Running,
                          !.stop_event = FALSE,
                          !.reader = [src \in Sources |-> "read"],
                          !.processor = "get"],
          ret |-> <<Success, spawn.pid>>]

RECURSIVE Join(_)
\* "".join(lines)
Join(lines) == IF lines = <<>> THEN <<>> ELSE Head(lines) \o Join(Tail(lines))

\* a get_status that reports self.state without polling the process; C10
\* tells it from get_status
get_status_unpolled(s) ==
    [s |-> s,
     ret |-> [command |-> s.command, state |-> s.state,
              last_five_lines |-> LastN(Join(get_lines(s.buffer, 5)), 300)]]

\* ProcessHandler.get_status
get_status(s) ==
    LET p  == IF s.process /\ s.state = Running THEN poll(s) ELSE s
        s1 == IF s.process /\ s.state = Running /\ p.returncode # None
              THEN [p EXCEPT !.state = ExitState(p.returncode[1])]
              ELSE p
    IN  [s |-> s1,
         ret |-> [command |-> s1.command, state |-> s1.state,
                  last_five_lines |-> LastN(Join(get_lines(s1.buffer, 5)), 300)]]

\* a kill that does not look at self.state; C7 tells it from kill_begin
kill_begin_any_state(s) ==
    IF ~s.process
    THEN [s |-> s, wait |-> FALSE, ret |-> Failed("No process to kill")]
    ELSE [s |-> send_kill(s), wait |-> TRUE, ret |-> None]

\* ProcessHandler.kill up to the wait loop: the checks and the signal.
\* wait tells whether the call goes on to poll for the exit.
kill_begin(s) ==
    IF ~s.process
    THEN [s |-> s, wait |-> FALSE, ret |-> Failed("No process to kill")]
    ELSE IF s.state \notin {Running, ErrorState}
    THEN [s |-> s, wait |-> FALSE, ret |-> Failed("Process not running")]
    ELSE [s |-> send_kill(s), wait |-> TRUE, ret |-> None]

\* a kill that sets stop_event before it tests for the timeout; C6 tells it
\* from kill_end
kill_end_stops_first(s) ==
    LET p == [poll(s) EXCEPT !.stop_event = TRUE]
    IN  IF p.returncode = None
        THEN [s |-> p, ret |-> Failed("Process did not terminate within timeout")]
        ELSE [s |-> [p EXCEPT !.state = Completed], ret |-> Success]

\* ProcessHandler.kill from the end of the wait loop
kill_end(s) ==
    LET p == poll(s)
    IN  IF p.returncode = None
        THEN [s |-> p, ret |-> Failed("Process did not terminate within timeout")]
        ELSE [s |-> [p EXCEPT !.state = Completed, !.stop_event = TRUE],
              ret |-> Success]

\* a cleanup that takes an input stream already closed for a failure and
\* puts the session in the Error state; C35 tells it from cleanup
cleanup_fails_when_closed(s) ==
    LET p  == IF s.process THEN poll(s) ELSE s
        s1 == IF s.process /\ p.returncode = None THEN send_kill(p) ELSE p
    IN  IF s1.process /\ ~s1.stdin_open
        THEN [s1 EXCEPT !.stop_event = TRUE, !.state = ErrorState]
        ELSE [s1 EXCEPT !.stop_event = TRUE,
                        !.stdin_open = IF s1.process THEN FALSE ELSE @]

\* ProcessHandler.cleanup
cleanup(s) ==
    LET p  == IF s.process THEN poll(s) ELSE s
        s1 == IF s.process /\ p.returncode = None THEN send_kill(p) ELSE p
    IN  [s1 EXCEPT !.stop_event = TRUE,
                   !.stdin_open = IF s1.process THEN FALSE ELSE @]

\* ProcessHandler.get_output_lines
get_output_lines(s, max_lines) == get_lines(s.buffer, max_lines)

\* ProcessHandler.search_output
search_output(s, search_type, pattern, max_lines) ==
    CASE search_type = "string"   -> search_string(s.buffer, pattern, max_lines)
      [] search_type = "regex"    -> search_regex(s.buffer, pattern, max_lines)
      [] search_type = "wildcard" -> search_wildcard(s.buffer, pattern, max_lines)
      [] OTHER -> <<ErrorMessage("Invalid search type")>>

\* process.stdin.write(data); process.stdin.flush() on the unbuffered pipe:
\* ValueError on a closed file, BrokenPipeError once the process has exited
stdin_write(s, data) ==
    IF ~s.stdin_open
    THEN [s |-> s, ret |-> Failed("I/O operation on closed file")]
    ELSE IF s.exit_status # None
    THEN [s |-> s, ret |-> Failed("[Errno 32] Broken pipe")]
    ELSE [s |-> [s EXCEPT !.stdin = @ \o data], ret |-> Success]

\* line.endswith('\n')
EndsWithNewline(line) == line # <<>> /\ line[Len(line)] = "\n"

\* a send_line that does not look at self.state; C11 tells it from send_line
send_line_any_state(s, line) ==
    IF ~s.process
    THEN [s |-> s, ret |-> Failed("No process running")]
    ELSE stdin_write(s, encode(IF EndsWithNewline(line) THEN line
                                ELSE Append(line, "\n")))

\* ProcessHandler.send_line.  process.stdin is the pipe object Popen made,
\* closed or not, so "if not self.process.stdin" never holds.
send_line(s, line) ==
    IF ~s.process
    THEN [s |-> s, ret |-> Failed("No process running")]
    ELSE IF s.state # Running
    THEN [s |-> s, ret |-> Failed("Process not in running state")]
    ELSE stdin_write(s, encode(IF EndsWithNewline(line) THEN line
                                ELSE Append(line, "\n")))

\* ProcessHandler.send_chars
send_chars(s, chars) ==
    IF ~s.process
    THEN [s |-> s, ret |-> Failed("No process running")]
    ELSE IF s.state # Running
    THEN [s |-> s, ret |-> Failed("Process not in running state")]
    ELSE stdin_write(s, encode(chars))

(* The threads.  A step of a thread runs from one point where it waits    *)
(* (a read of the pipe, a get on the queue, taking self.lock) to the next, *)
(* so the test of stop_event that heads each loop is taken with the work   *)
(* before it.                                                              *)

(* The reader threads: ProcessHandler._read_output, one per source. *)

\* a reader that does not test stop_event; C34 tells it from
\* read_output_loop
read_output_loop_ignores_stop(s, src) == [s EXCEPT !.reader[src] = "read"]

\* while not self.stop_event.is_set(); the finally clause closes the pipe
read_output_loop(s, src) ==
    [s EXCEPT !.reader[src] = IF s.stop_event THEN "closed" ELSE "read"]

\* byte = pipe.read(1); self.io_queue.put((source, byte))
read_output_byte(s, src) ==
    read_output_loop([s EXCEPT !.pipe[src] = Tail(@),
                               !.io_queue = Append(@, <<src, Head(s.pipe[src])>>)],
                     src)

\* if not byte: break
read_output_eof(s, src) == [s EXCEPT !.reader[src] = "closed"]

\* except Exception: self.io_queue.put(("error", str(e)))
read_output_fault(s, src, e) ==
    [s EXCEPT !.io_queue = Append(@, <<"error", e>>), !.reader[src] = "closed"]

(* The processor thread: ProcessHandler._process_output. *)

\* while not self.stop_event.is_set()
process_output_loop(s) ==
    [s EXCEPT !.processor = IF s.stop_event THEN "done" ELSE "get"]

\* whether the processor takes self.lock for an item of the queue
item_locks(item) == item[1] = "error" \/ item[2] = "0A"

\* the body of the try block for the item taken from the queue
process_output_item(s) ==
    LET source == s.item[1][1]
        data   == s.item[1][2]
    IN  process_output_loop(
            IF source = "error"
            THEN [s EXCEPT !.error = Some(data), !.state = ErrorState, !.item = None]
            ELSE IF data = "0A"
            THEN [s EXCEPT !.buffer = append(@, decode(Append(s.current_line, data))),
                           !.current_line = <<>>,
                           !.item = None]
            ELSE [s EXCEPT !.current_line = Append(@, data), !.item = None])

\* a processor that flushes the accumulator at every idle interval, empty
\* or not; C38 tells it from process_output_get
process_output_get_flushes_empty(s) ==
    IF s.io_queue # <<>>
    THEN LET got == [s EXCEPT !.item = Some(Head(s.io_queue)), !.io_queue = Tail(@)]
         IN  IF item_locks(Head(s.io_queue))
             THEN [got EXCEPT !.processor = "item"]
             ELSE process_output_item(got)
    ELSE [s EXCEPT !.processor = "flush"]

\* self.io_queue.get(timeout=0.1): an item, or queue.Empty on an empty queue
process_output_get(s) ==
    IF s.io_queue # <<>>
    THEN LET got == [s EXCEPT !.item = Some(Head(s.io_queue)), !.io_queue = Tail(@)]
         IN  IF item_locks(Head(s.io_queue))
             THEN [got EXCEPT !.processor = "item"]
             ELSE process_output_item(got)
    ELSE [s EXCEPT !.processor = IF s.current_line # <<>> THEN "flush" ELSE "poll"]

\* except queue.Empty: if current_line: the partial line goes to the buffer
process_output_flush(s) ==
    [s EXCEPT !.buffer = append(@, decode(s.current_line)),
              !.current_line = <<>>,
              !.processor = "poll"]

\* a processor that polls the process and leaves self.state alone; C25 tells
\* it from process_output_poll
process_output_poll_no_state(s) ==
    LET p == IF s.process THEN poll(s) ELSE s
    IN  IF s.process /\ p.returncode # None /\ p.io_queue = <<>>
        THEN [p EXCEPT !.processor = "done"]
        ELSE process_output_loop(p)

\* a processor that takes an idle interval with an empty queue for the end
\* of the process; C32 tells it from process_output_poll
process_output_poll_idle_is_exit(s) ==
    IF s.process /\ s.io_queue = <<>>
    THEN [s EXCEPT !.state = IF s.state = Running THEN Completed ELSE @,
                   !.processor = "done"]
    ELSE process_output_loop(s)

\* except queue.Empty: "Check if process has terminated"
process_output_poll(s) ==
    LET p  == IF s.process THEN poll(s) ELSE s
        s1 == IF s.process /\ p.returncode # None /\ p.state = Running
              THEN [p EXCEPT !.state = ExitState(p.returncode[1])]
              ELSE p
    IN  IF s.process /\ p.returncode # None /\ p.io_queue = <<>>
        THEN [s1 EXCEPT !.processor = "done"]
        ELSE process_output_loop(s1)

---------------------------------------------------------------------------
(* ProcessManager (process_manager.py).  The handlers it has created are   *)
(* handlers[1], handlers[2], ... and processes maps a pid to one of them.  *)

\* self.processes.get(pid) is a handler
Registered(procs, pid) == pid \in DOMAIN procs

\* self.processes[pid] = handler
Register(procs, pid, h) ==
    [k \in DOMAIN procs \cup {pid} |-> IF k = pid THEN h ELSE procs[k]]

\* del self.processes[pid]
Unregister(procs, pid) == [k \in DOMAIN procs \ {pid} |-> procs[k]]

\* a process_start that registers the handler whatever start returned; C9
\* tells it from process_start
process_start_registers_all(hs, procs, command, spawn) ==
    IF Falsy(command)
    THEN [handlers |-> hs, processes |-> procs,
          ret |-> <<Failed("Command list cannot be empty"), NoPid>>]
    ELSE IF command.type # "list"
    THEN [handlers |-> hs, processes |-> procs,
          ret |-> <<Failed("Command must be a list"), NoPid>>]
    ELSE LET r == start(ProcessHandler(command, BufferSize), spawn)
             h == Len(hs) + 1
         IN  [handlers |-> Append(hs, r.s),
              processes |-> Register(procs, IF spawn.ok THEN spawn.pid ELSE 1, h),
              ret |-> r.ret]

\* ProcessManager.process_start on the manager (hs, procs)
process_start(hs, procs, command, spawn) ==
    IF Falsy(command)
    THEN [handlers |-> hs, processes |-> procs,
          ret |-> <<Failed("Command list cannot be empty"), NoPid>>]
    ELSE IF command.type # "list"
    THEN [handlers |-> hs, processes |-> procs,
          ret |-> <<Failed("Command must be a list"), NoPid>>]
    ELSE LET r == start(ProcessHandler(command, BufferSize), spawn)
             h == Len(hs) + 1
         IN  IF IsSuccess(r.ret[1]) /\ r.ret[2] # NoPid
             THEN [handlers |-> Append(hs, r.s),
                   processes |-> Register(procs, r.ret[2], h),
                   ret |-> r.ret]
             ELSE [handlers |-> hs, processes |-> procs, ret |-> r.ret]

\* a process_status that looks for the pid among the handlers the manager
\* ever made, not in the registry; C18 tells it from process_status
process_status_any_handler(hs, procs, pid) ==
    IF \A h \in DOMAIN hs : hs[h].pid # pid
    THEN [handlers |-> hs,
          ret |-> [command |-> List(<<>>), state |-> <<"error: Process not found">>,
                   last_five_lines |-> <<>>]]
    ELSE LET h == CHOOSE x \in DOMAIN hs : hs[x].pid = pid
             r == get_status(hs[h])
         IN  [handlers |-> [hs EXCEPT ![h] = r.s], ret |-> r.ret]

\* ProcessManager.process_status
process_status(hs, procs, pid) ==
    IF ~Registered(procs, pid)
    THEN [handlers |-> hs,
          ret |-> [command |-> List(<<>>), state |-> <<"error: Process not found">>,
                   last_five_lines |-> <<>>]]
    ELSE LET r == get_status(hs[procs[pid]])
         IN  [handlers |-> [hs EXCEPT ![procs[pid]] = r.s], ret |-> r.ret]

\* ProcessManager.process_kill up to the wait loop of handler.kill
process_kill_begin(hs, procs, pid) ==
    IF ~Registered(procs, pid)
    THEN [handlers |-> hs, wait |-> FALSE, ret |-> Failed("Process not found")]
    ELSE LET r == kill_begin(hs[procs[pid]])
         IN  [handlers |-> [hs EXCEPT ![procs[pid]] = r.s],
              wait |-> r.wait, ret |-> r.ret]

\* ProcessManager.process_kill from the end of the wait loop
process_kill_end(hs, procs, pid) ==
    LET r == kill_end(hs[procs[pid]])
    IN  [handlers |-> [hs EXCEPT ![procs[pid]] = r.s], ret |-> r.ret]

\* a removal that deletes the entry without handler.cleanup(); C16 tells it
\* from remove_finish
remove_finish_no_cleanup(hs, procs, pid) ==
    [handlers |-> hs, processes |-> Unregister(procs, pid), ret |-> Success]

\* ProcessManager.process_remove from "Clean up resources" on
remove_finish(hs, procs, pid) ==
    [handlers |-> [hs EXCEPT ![procs[pid]] = cleanup(@)],
     processes |-> Unregister(procs, pid),
     ret |-> Success]

\* ProcessManager.process_remove up to the wait loop of handler.kill, or
\* to its end when the handler is not running
process_remove_begin(hs, procs, pid) ==
    IF ~Registered(procs, pid)
    THEN [handlers |-> hs, processes |-> procs, wait |-> FALSE,
          ret |-> Failed("Process not found")]
    ELSE IF hs[procs[pid]].state = Running
    THEN LET r == kill_begin(hs[procs[pid]])
             hs1 == [hs EXCEPT ![procs[pid]] = r.s]
         IN  IF r.wait
             THEN [handlers |-> hs1, processes |-> procs, wait |-> TRUE, ret |-> None]
             ELSE remove_finish(hs1, procs, pid) @@ [wait |-> FALSE]
    ELSE remove_finish(hs, procs, pid) @@ [wait |-> FALSE]

\* a process_remove that gives up when the kill failed; C15 tells it from
\* process_remove_end
process_remove_end_kill_fatal(hs, procs, pid) ==
    LET r == kill_end(hs[procs[pid]])
        hs1 == [hs EXCEPT ![procs[pid]] = r.s]
    IN  IF IsFailed(r.ret)
        THEN [handlers |-> hs1, processes |-> procs, ret |-> r.ret]
        ELSE remove_finish(hs1, procs, pid)

\* ProcessManager.process_remove from the end of the wait loop
process_remove_end(hs, procs, pid) ==
    LET r == kill_end(hs[procs[pid]])
    IN  remove_finish([hs EXCEPT ![procs[pid]] = r.s], procs, pid)

RECURSIVE SortedPids(_)
\* the pids of a set in ascending order
SortedPids(S) ==
    IF S = {} THEN <<>>
    ELSE LET m == CHOOSE x \in S : \A y \in S : x <= y
         IN  <<m>> \o SortedPids(S \ {m})

\* list(self.processes.items()): the (pid, handler) pairs.  The model visits
\* them in ascending pid order; the system hands the pids out in any order.
Items(procs) ==
    [i \in 1..Cardinality(DOMAIN procs) |->
        <<SortedPids(DOMAIN procs)[i], procs[SortedPids(DOMAIN procs)[i]]>>]

\* what all_kill and all_remove return for the errors they collected:
\* "success", or "failed: " with the "PID n: message" entries
Aggregate(errors) == IF errors # <<>> THEN Failed(errors) ELSE Success

\* errors.append(f"PID {pid}: {result}") if "failed" in result
Collect(errors, pid, result) ==
    IF IsFailed(result) THEN Append(errors, <<pid, result>>) ELSE errors

RECURSIVE all_kill_loop(_, _, _)
\* the for loop of all_kill over the items todo, up to the next wait loop of
\* a handler.kill or to the return
all_kill_loop(hs, todo, errors) ==
    IF todo = <<>>
    THEN [handlers |-> hs, wait |-> FALSE, todo |-> todo, errors |-> errors,
          ret |-> Aggregate(errors)]
    ELSE LET pid == Head(todo)[1]
             h   == Head(todo)[2]
         IN  IF hs[h].state # Running
             THEN all_kill_loop(hs, Tail(todo), errors)
             ELSE LET r   == kill_begin(hs[h])
                      hs1 == [hs EXCEPT ![h] = r.s]
                  IN  IF r.wait
                      THEN [handlers |-> hs1, wait |-> TRUE, todo |-> todo,
                            errors |-> errors, ret |-> None]
                      ELSE all_kill_loop(hs1, Tail(todo),
                                         Collect(errors, pid, r.ret))

\* ProcessManager.all_kill up to the first wait loop, or to the return
all_kill_begin(hs, procs) == all_kill_loop(hs, Items(procs), <<>>)

\* an all_kill that forgets the failure of the kill it waited for; C13 tells
\* it from all_kill_end
all_kill_end_forgets(hs, todo, errors) ==
    LET h == Head(todo)[2]
        r == kill_end(hs[h])
    IN  all_kill_loop([hs EXCEPT ![h] = r.s], Tail(todo), errors)

\* ProcessManager.all_kill from the end of the wait loop of the kill of
\* Head(todo), up to the next wait loop or to the return
all_kill_end(hs, todo, errors) ==
    LET pid == Head(todo)[1]
        h   == Head(todo)[2]
        r   == kill_end(hs[h])
    IN  all_kill_loop([hs EXCEPT ![h] = r.s], Tail(todo),
                      Collect(errors, pid, r.ret))

RECURSIVE all_remove_loop(_, _, _)
\* the for loop of all_remove over the items todo
all_remove_loop(hs, procs, todo) ==
    IF todo = <<>>
    THEN [handlers |-> hs, processes |-> procs, ret |-> Aggregate(<<>>)]
    ELSE LET pid == Head(todo)[1]
             h   == Head(todo)[2]
         IN  IF hs[h].state # Running
             THEN all_remove_loop([hs EXCEPT ![h] = cleanup(@)],
                                  Unregister(procs, pid), Tail(todo))
             ELSE all_remove_loop(hs, procs, Tail(todo))

\* an all_remove that does not look at the state; C17 tells it from all_remove
all_remove_any_state(hs, procs) ==
    [handlers |-> [h \in DOMAIN hs |->
                      IF \E pid \in DOMAIN procs : procs[pid] = h
                      THEN cleanup(hs[h]) ELSE hs[h]],
     processes |-> <<>>,
     ret |-> Success]

\* ProcessManager.all_remove
all_remove(hs, procs) == all_remove_loop(hs, procs, Items(procs))

RECURSIVE process_list_loop(_, _, _)
\* the for loop of process_list over the items todo
process_list_loop(hs, todo, result) ==
    IF todo = <<>>
    THEN [handlers |-> hs, ret |-> result]
    ELSE LET pid == Head(todo)[1]
             h   == Head(todo)[2]
             r   == get_status(hs[h])
         IN  process_list_loop([hs EXCEPT ![h] = r.s], Tail(todo),
                               Append(result, <<pid, r.ret.command, r.ret.state>>))

\* a process_list that reads handler.state in place of get_status(); C19
\* tells it from process_list
process_list_unpolled(hs, procs) ==
    [handlers |-> hs,
     ret |-> [i \in 1..Len(Items(procs)) |->
                <<Items(procs)[i][1], hs[Items(procs)[i][2]].command,
                  hs[Items(procs)[i][2]].state>>]]

\* ProcessManager.process_list
process_list(hs, procs) == process_list_loop(hs, Items(procs), <<>>)

\* search_type not in ["string", "regex", "wildcard"]
InvalidSearchType(search_type) == search_type \notin {"string", "regex", "wildcard"}
InvalidSearchTypeError == ErrorMessage("Invalid search type")
EmptyPatternError == ErrorMessage("Search pattern cannot be empty")
\* [f"ERROR: Process not found: pid={pid}"]
ProcessNotFoundError(pid) == ErrorMessage("Process not found: pid=") \o <<ToString(pid)>>
\* the pid of the entry of all_search that carries the errors
ErrorPid == -1

RECURSIVE JoinErrors(_)
\* '; '.join(errors), each error being f"PID {pid}: {matches[0]}"
JoinErrors(errors) ==
    IF errors = <<>> THEN <<>>
    ELSE <<"PID ", ToString(errors[1][1]), ": ">> \o errors[1][2]
         \o (IF Len(errors) > 1 THEN <<"; ">> ELSE <<>>) \o JoinErrors(Tail(errors))

RECURSIVE all_search_loop(_, _, _, _, _, _, _)
\* the loop of all_search over the handlers not yet visited
all_search_loop(hs, todo, search_type, pattern, max_lines_per_pid, found, errors) ==
    IF todo = <<>>
    THEN IF errors # <<>>
         THEN Append(found, <<ErrorPid, <<ERROR_PREFIX \o <<" ">> \o JoinErrors(errors)>>>>)
         ELSE found
    ELSE LET pid == todo[1][1]
             matches == search_output(hs[todo[1][2]], search_type, pattern,
                                      max_lines_per_pid)
         IN  IF matches # <<>> /\ StartsWithError(matches[1])
             THEN all_search_loop(hs, Tail(todo), search_type, pattern,
                                  max_lines_per_pid, found,
                                  Append(errors, <<pid, matches[1]>>))
             ELSE all_search_loop(hs, Tail(todo), search_type, pattern,
                                  max_lines_per_pid,
                                  IF matches # <<>>
                                  THEN Append(found, <<pid, matches>>) ELSE found,
                                  errors)

\* ProcessManager.all_search
all_search(hs, procs, search_type, pattern, max_lines_per_pid) ==
    IF InvalidSearchType(search_type)
    THEN <<<<ErrorPid, <<InvalidSearchTypeError>>>>>>
    ELSE IF pattern \in {NoPattern, <<>>}
    THEN <<<<ErrorPid, <<EmptyPatternError>>>>>>
    ELSE all_search_loop(hs, Items(procs), search_type, pattern,
                         max_lines_per_pid, <<>>, <<>>)

\* ProcessManager.stdio_get_lines
stdio_get_lines(hs, procs, pid, max_lines) ==
    IF ~Registered(procs, pid)
    THEN <<ProcessNotFoundError(pid)>>
    ELSE get_output_lines(hs[procs[pid]], max_lines)

\* ProcessManager.stdio_search_lines
stdio_search_lines(hs, procs, pid, search_type, pattern, max_lines) ==
    IF ~Registered(procs, pid)
    THEN <<ProcessNotFoundError(pid)>>
    ELSE IF InvalidSearchType(search_type)
    THEN <<InvalidSearchTypeError>>
    ELSE IF pattern \in {NoPattern, <<>>}
    THEN <<EmptyPatternError>>
    ELSE search_output(hs[procs[pid]], search_type, pattern, max_lines)

\* ProcessManager.stdio_send_line
stdio_send_line(hs, procs, pid, line) ==
    IF ~Registered(procs, pid)
    THEN [handlers |-> hs, ret |-> Failed("Process not found")]
    ELSE LET r == send_line(hs[procs[pid]], line)
         IN  [handlers |-> [hs EXCEPT ![procs[pid]] = r.s], ret |-> r.ret]

\* ProcessManager.stdio_send_chars
stdio_send_chars(hs, procs, pid, chars) ==
    IF ~Registered(procs, pid)
    THEN [handlers |-> hs, ret |-> Failed("Process not found")]
    ELSE LET r == send_chars(hs[procs[pid]], chars)
         IN  [handlers |-> [hs EXCEPT ![procs[pid]] = r.s], ret |-> r.ret]

---------------------------------------------------------------------------
(* The actions. *)

Handlers == DOMAIN handlers
Pids == 1..NumPids
Idle == [pc |-> "idle"]

\* the caller's thread inside the wait loop of kill on handler h, called from op
Waiting(op, h, pid) ==
    [pc |-> op, h |-> h, pid |-> pid,
     state |-> handlers[h].state, stop_event |-> handlers[h].stop_event]

\* self.lock of handler h is held by the caller across the wait loop
Locked(h) == caller.pc # "idle" /\ caller.h = h

\* the pids of the processes not yet reaped: the system hands out none of them
LivePids ==
    {handlers[h].pid : h \in {x \in Handlers : handlers[x].process
                                           /\ handlers[x].returncode = None}}

SpawnFailures == {[ok |-> FALSE, pid |-> NoPid, err |-> e] : e \in SpawnErrors}
Spawned(pids) == {[ok |-> TRUE, pid |-> p, err |-> ""] : p \in pids}

Update(h, s) == handlers' = [handlers EXCEPT ![h] = s]

UnchangedBuf == UNCHANGED <<rb, rb_ops, query, threads>>
UnchangedEnv == UNCHANGED <<nwritten, nfaults>>
UnchangedSessions ==
    UNCHANGED <<handlers, processes, caller, killed, nwritten, nfaults, threads>>
UnchangedCaller == UNCHANGED <<processes, caller, killed>>

(* The operating-system process of handler h. *)

Alive(s) == s.process /\ s.exit_status = None

ProcWrite(h) ==
    /\ Alive(handlers[h]) /\ ~handlers[h].signalled
    /\ nwritten < MaxOut
    /\ \E src \in Sources, byte \in OutBytes :
        /\ handlers[h].reader[src] # "closed"
        /\ Update(h, [handlers[h] EXCEPT !.pipe[src] = Append(@, byte)])
    /\ nwritten' = nwritten + 1
    /\ UNCHANGED nfaults /\ UnchangedCaller /\ UnchangedBuf

\* the characters the process of SpecPipe may write
PipeChars == {"a", "\n", "e'"}

\* the process writes a character, encoded in UTF-8, in one write
ProcWriteText(h) ==
    /\ Alive(handlers[h]) /\ ~handlers[h].signalled
    /\ nwritten < MaxPipeOut
    /\ \E src \in Sources, c \in PipeChars :
        /\ handlers[h].reader[src] # "closed"
        /\ Update(h, [handlers[h] EXCEPT !.pipe[src] = @ \o encode_char(c)])
    /\ nwritten' = nwritten + 1
    /\ UNCHANGED nfaults /\ UnchangedCaller /\ UnchangedBuf

\* the process is cat: it reads a byte of its input and writes it to stdout
ProcEcho(h) ==
    /\ Alive(handlers[h]) /\ ~handlers[h].signalled
    /\ handlers[h].stdin # <<>>
    /\ handlers[h].reader["stdout"] # "closed"
    /\ Update(h, [handlers[h] EXCEPT !.stdin = Tail(@),
                                     !.pipe["stdout"] = Append(@, Head(handlers[h].stdin))])
    /\ nwritten' = nwritten + 1
    /\ UNCHANGED nfaults /\ UnchangedCaller /\ UnchangedBuf

ProcExit(h) ==
    /\ Alive(handlers[h]) /\ ~handlers[h].signalled
    /\ \E code \in ExitCodes :
        Update(h, [handlers[h] EXCEPT !.exit_status = Some(code)])
    /\ UnchangedCaller /\ UnchangedBuf /\ UnchangedEnv

ProcDie(h) ==
    /\ Alive(handlers[h]) /\ handlers[h].signalled
    /\ Update(h, [handlers[h] EXCEPT !.exit_status = Some(-SIGKILL)])
    /\ UnchangedCaller /\ UnchangedBuf /\ UnchangedEnv

(* The reader threads of handler h. *)

ReaderRead(h) ==
    /\ \E src \in Sources :
        /\ handlers[h].reader[src] = "read"
        /\ handlers[h].pipe[src] # <<>>
        /\ Update(h, read_output_byte(handlers[h], src))
    /\ UnchangedCaller /\ UnchangedBuf /\ UnchangedEnv

ReaderEof(h) ==
    /\ \E src \in Sources :
        /\ handlers[h].reader[src] = "read"
        /\ handlers[h].pipe[src] = <<>>
        /\ handlers[h].exit_status # None
        /\ Update(h, read_output_eof(handlers[h], src))
    /\ UnchangedCaller /\ UnchangedBuf /\ UnchangedEnv

ReaderFault(h) ==
    /\ nfaults < MaxFaults
    /\ \E src \in Sources :
        /\ handlers[h].reader[src] = "read"
        /\ Update(h, read_output_fault(handlers[h], src, "I/O error"))
    /\ nfaults' = nfaults + 1
    /\ UNCHANGED nwritten /\ UnchangedCaller /\ UnchangedBuf

(* The processor thread of handler h. *)

ProcessorGet(h) ==
    /\ handlers[h].processor = "get"
    /\ Update(h, process_output_get(handlers[h]))
    /\ UnchangedCaller /\ UnchangedBuf /\ UnchangedEnv

ProcessorItem(h) ==
    /\ handlers[h].processor = "item"
    /\ ~Locked(h)
    /\ Update(h, process_output_item(handlers[h]))
    /\ UnchangedCaller /\ UnchangedBuf /\ UnchangedEnv

ProcessorFlush(h) ==
    /\ handlers[h].processor = "flush"
    /\ ~Locked(h)
    /\ Update(h, process_output_flush(handlers[h]))
    /\ UnchangedCaller /\ UnchangedBuf /\ UnchangedEnv

ProcessorPoll(h) ==
    /\ handlers[h].processor = "poll"
    /\ ~Locked(h)
    /\ Update(h, process_output_poll(handlers[h]))
    /\ UnchangedCaller /\ UnchangedBuf /\ UnchangedEnv

\* a step of a process that writes nothing, or of a thread that meets no
\* output and no fault, of some handler
QuietPipelines ==
    \/ \E h \in Handlers : ProcExit(h)
    \/ \E h \in Handlers : ProcDie(h)
    \/ \E h \in Handlers : ReaderEof(h)
    \/ \E h \in Handlers : ProcessorGet(h)
    \/ \E h \in Handlers : ProcessorPoll(h)

\* a step of the process or of a thread of some handler
Pipelines ==
    \/ QuietPipelines
    \/ \E h \in Handlers : ProcWrite(h)
    \/ \E h \in Handlers : ReaderRead(h)
    \/ \E h \in Handlers : ReaderFault(h)
    \/ \E h \in Handlers : ProcessorItem(h)
    \/ \E h \in Handlers : ProcessorFlush(h)

(* The caller's thread calling the methods of handler h. *)

\* the history of successful kills of a Running session, after the wait on h
\* ended with what kill_end returned
KilledAfter(h, r) ==
    IF r = Success /\ caller.state = Running THEN killed \cup {h} ELSE killed

Start(h) ==
    /\ caller = Idle
    /\ \E spawn \in SpawnFailures \cup Spawned({CHOOSE p \in Pids \ LivePids : TRUE}) :
        Update(h, start(handlers[h], spawn).s)
    /\ UnchangedCaller /\ UnchangedBuf /\ UnchangedEnv

GetStatus(h) ==
    /\ caller = Idle
    /\ Update(h, get_status(handlers[h]).s)
    /\ UnchangedCaller /\ UnchangedBuf /\ UnchangedEnv

KillBegin(h) ==
    /\ caller = Idle
    /\ LET r == kill_begin(handlers[h])
       IN  /\ Update(h, r.s)
           /\ caller' = IF r.wait THEN Waiting("kill", h, handlers[h].pid) ELSE Idle
    /\ UNCHANGED <<processes, killed>> /\ UnchangedBuf /\ UnchangedEnv

KillEnd(h) ==
    /\ caller.pc = "kill" /\ caller.h = h
    /\ LET r == kill_end(handlers[h])
       IN  Update(h, r.s) /\ killed' = KilledAfter(h, r.ret)
    /\ caller' = Idle
    /\ UNCHANGED processes /\ UnchangedBuf /\ UnchangedEnv

Cleanup(h) ==
    /\ caller = Idle
    /\ Update(h, cleanup(handlers[h]))
    /\ UnchangedCaller /\ UnchangedBuf /\ UnchangedEnv

\* the texts the caller sends
Texts == {<<"a">>, <<"a", "\n">>}

SendLine(h) ==
    /\ caller = Idle
    /\ Len(handlers[h].stdin) < MaxStdin
    /\ \E line \in Texts : Update(h, send_line(handlers[h], line).s)
    /\ UnchangedCaller /\ UnchangedBuf /\ UnchangedEnv

SendChars(h) ==
    /\ caller = Idle
    /\ Len(handlers[h].stdin) < MaxStdin
    /\ \E chars \in Texts : Update(h, send_chars(handlers[h], chars).s)
    /\ UnchangedCaller /\ UnchangedBuf /\ UnchangedEnv

\* a call of a method of some handler
Sessions ==
    \/ \E h \in Handlers : Start(h)
    \/ \E h \in Handlers : GetStatus(h)
    \/ \E h \in Handlers : KillBegin(h)
    \/ \E h \in Handlers : KillEnd(h)
    \/ \E h \in Handlers : Cleanup(h)

(* The caller's thread calling the methods of the manager.  Each method    *)
(* does its work inside "with self.lock" of the manager, the wait loop of  *)
(* the kill it delegates to included, so that a call made by any thread    *)
(* goes ahead only when no call is inside a wait loop: caller = Idle.      *)

ManagerCommands == {List(<<>>), Str(<<"c", "a", "t">>), List(<<"cat">>)}

ProcessStart ==
    /\ caller = Idle
    /\ Len(handlers) < MaxStarts
    /\ \E command \in ManagerCommands,
          spawn \in SpawnFailures \cup Spawned(Pids \ LivePids) :
        LET r == process_start(handlers, processes, command, spawn)
        IN  handlers' = r.handlers /\ processes' = r.processes
    /\ UNCHANGED <<caller, killed>> /\ UnchangedBuf /\ UnchangedEnv

ProcessStatus ==
    /\ caller = Idle
    /\ \E pid \in Pids :
        handlers' = process_status(handlers, processes, pid).handlers
    /\ UnchangedCaller /\ UnchangedBuf /\ UnchangedEnv

ProcessKillBegin ==
    /\ caller = Idle
    /\ \E pid \in Pids :
        LET r == process_kill_begin(handlers, processes, pid)
        IN  /\ handlers' = r.handlers
            /\ caller' = IF r.wait
                         THEN Waiting("process_kill", processes[pid], pid)
                         ELSE Idle
    /\ UNCHANGED <<processes, killed>> /\ UnchangedBuf /\ UnchangedEnv

ProcessKillEnd ==
    /\ caller.pc = "process_kill"
    /\ LET r == process_kill_end(handlers, processes, caller.pid)
       IN  handlers' = r.handlers /\ killed' = KilledAfter(caller.h, r.ret)
    /\ caller' = Idle
    /\ UNCHANGED processes /\ UnchangedBuf /\ UnchangedEnv

ProcessRemoveBegin ==
    /\ caller = Idle
    /\ \E pid \in Pids :
        LET r == process_remove_begin(handlers, processes, pid)
        IN  /\ handlers' = r.handlers /\ processes' = r.processes
            /\ caller' = IF r.wait
                         THEN Waiting("process_remove", processes[pid], pid)
                         ELSE Idle
    /\ UNCHANGED killed /\ UnchangedBuf /\ UnchangedEnv

ProcessRemoveEnd ==
    /\ caller.pc = "process_remove"
    /\ LET k == kill_end(handlers[caller.h])
           r == process_remove_end(handlers, processes, caller.pid)
       IN  /\ handlers' = r.handlers /\ processes' = r.processes
           /\ killed' = KilledAfter(caller.h, k.ret)
    /\ caller' = Idle
    /\ UnchangedBuf /\ UnchangedEnv

ProcessList ==
    /\ caller = Idle
    /\ handlers' = process_list(handlers, processes).handlers
    /\ UnchangedCaller /\ UnchangedBuf /\ UnchangedEnv

\* the handlers registered in state Running
RunningHandlers ==
    {processes[pid] : pid \in {p \in DOMAIN processes :
                                  handlers[processes[p]].state = Running}}

\* the caller inside the wait loop of the kill of Head(r.todo) in an all_kill
\* that was called with the handlers of running in state Running
WaitingAll(r, running) ==
    Waiting("all_kill", Head(r.todo)[2], Head(r.todo)[1])
        @@ [todo |-> r.todo, errors |-> r.errors, running |-> running]

AllKillBegin ==
    /\ caller = Idle
    /\ LET r == all_kill_begin(handlers, processes)
       IN  /\ handlers' = r.handlers
           /\ caller' = IF r.wait THEN WaitingAll(r, RunningHandlers) ELSE Idle
    /\ UNCHANGED <<processes, killed>> /\ UnchangedBuf /\ UnchangedEnv

AllKillEnd ==
    /\ caller.pc = "all_kill"
    /\ LET k == kill_end(handlers[caller.h])
           r == all_kill_end(handlers, caller.todo, caller.errors)
       IN  /\ handlers' = r.handlers
           /\ killed' = KilledAfter(caller.h, k.ret)
           /\ caller' = IF r.wait THEN WaitingAll(r, caller.running) ELSE Idle
    /\ UNCHANGED processes /\ UnchangedBuf /\ UnchangedEnv

AllRemove ==
    /\ caller = Idle
    /\ LET r == all_remove(handlers, processes)
       IN  handlers' = r.handlers /\ processes' = r.processes
    /\ UNCHANGED <<caller, killed>> /\ UnchangedBuf /\ UnchangedEnv

Manager ==
    \/ ProcessStart \/ ProcessStatus
    \/ ProcessKillBegin \/ ProcessKillEnd
    \/ ProcessRemoveBegin \/ ProcessRemoveEnd
    \/ ProcessList
    \/ AllKillBegin \/ AllKillEnd
    \/ AllRemove

(* The caller's thread asking the manager for captured output, and        *)
(* sending input through it.  query is the last question and its answer.   *)

SearchTypes == {"string", "regex", "wildcard", "glob"}
Patterns == {NoPattern, <<>>, <<"a">>, <<"(">>}
MaxLinesArgs == {0, 1}

Asked(op, args, ret) == query' = Some([op |-> op, args |-> args, ret |-> ret])

AllSearch ==
    /\ caller = Idle
    /\ \E search_type \in SearchTypes, pattern \in Patterns,
          max_lines_per_pid \in MaxLinesArgs :
        Asked("all_search", <<search_type, pattern, max_lines_per_pid>>,
              all_search(handlers, processes, search_type, pattern,
                         max_lines_per_pid))
    /\ UNCHANGED <<rb, rb_ops, handlers, processes, caller, killed, threads>> /\ UnchangedEnv

StdioGetLines ==
    /\ caller = Idle
    /\ \E pid \in Pids, max_lines \in MaxLinesArgs :
        Asked("stdio_get_lines", <<pid, max_lines>>,
              stdio_get_lines(handlers, processes, pid, max_lines))
    /\ UNCHANGED <<rb, rb_ops, handlers, processes, caller, killed, threads>> /\ UnchangedEnv

StdioSearchLines ==
    /\ caller = Idle
    /\ \E pid \in Pids, search_type \in SearchTypes, pattern \in Patterns,
          max_lines \in MaxLinesArgs :
        Asked("stdio_search_lines", <<pid, search_type, pattern, max_lines>>,
              stdio_search_lines(handlers, processes, pid, search_type, pattern,
                                 max_lines))
    /\ UNCHANGED <<rb, rb_ops, handlers, processes, caller, killed, threads>> /\ UnchangedEnv

\* the bytes sent so far to the processes of every handler
RECURSIVE StdinTotal(_)
StdinTotal(hs) == IF hs = <<>> THEN 0 ELSE Len(hs[1].stdin) + StdinTotal(Tail(hs))

StdioSendLine ==
    /\ caller = Idle
    /\ StdinTotal(handlers) < MaxQueryStdin
    /\ \E pid \in Pids, line \in Texts :
        LET r == stdio_send_line(handlers, processes, pid, line)
        IN  /\ handlers' = r.handlers
            /\ Asked("stdio_send_line", <<pid, line>>, r.ret)
    /\ UNCHANGED <<rb, rb_ops, processes, caller, killed, threads>> /\ UnchangedEnv

StdioSendChars ==
    /\ caller = Idle
    /\ StdinTotal(handlers) < MaxQueryStdin
    /\ \E pid \in Pids, chars \in Texts :
        LET r == stdio_send_chars(handlers, processes, pid, chars)
        IN  /\ handlers' = r.handlers
            /\ Asked("stdio_send_chars", <<pid, chars>>, r.ret)
    /\ UNCHANGED <<rb, rb_ops, processes, caller, killed, threads>> /\ UnchangedEnv

Queries ==
    \/ AllSearch
    \/ StdioGetLines
    \/ StdioSearchLines
    \/ StdioSendLine
    \/ StdioSendChars

(* A RingBuffer on its own.  query is the last read of the buffer and its  *)
(* answer, None when the buffer has been changed since.                    *)

LineChars == {"a", "e'"}
Lines == UNION {[1..n -> LineChars] : n \in 0..MaxLineLen}

Append_(line) ==
    /\ rb_ops < MaxAppends
    /\ rb' = append(rb, line)
    /\ rb_ops' = rb_ops + 1
    /\ query' = None
    /\ UnchangedSessions

Clear ==
    /\ rb_ops < MaxAppends
    /\ rb' = clear(rb)
    /\ rb_ops' = rb_ops + 1
    /\ query' = None
    /\ UnchangedSessions

\* an append, with the line it was given left in query
AppendLine(line) ==
    /\ rb_ops < MaxAppends
    /\ rb' = append(rb, line)
    /\ rb_ops' = rb_ops + 1
    /\ Asked("append", <<line>>, None)
    /\ UnchangedSessions

(* The reads of a RingBuffer on its own. *)

BufMaxLines == {-1, 0, 1, 2}
BufPatterns == {NoPattern, <<>>, <<"a">>, <<"e'">>, <<"(">>}

GetLines(max_lines) ==
    /\ Asked("get_lines", <<max_lines>>, get_lines(rb, max_lines))
    /\ UNCHANGED <<rb, rb_ops>> /\ UnchangedSessions

SearchString(search_str, max_lines) ==
    /\ Asked("search_string", <<search_str, max_lines>>,
             search_string(rb, search_str, max_lines))
    /\ UNCHANGED <<rb, rb_ops>> /\ UnchangedSessions

SearchRegex(regex_pattern, max_lines) ==
    /\ Asked("search_regex", <<regex_pattern, max_lines>>,
             search_regex(rb, regex_pattern, max_lines))
    /\ UNCHANGED <<rb, rb_ops>> /\ UnchangedSessions

SearchWildcard(wildcard_pattern, max_lines) ==
    /\ Asked("search_wildcard", <<wildcard_pattern, max_lines>>,
             search_wildcard(rb, wildcard_pattern, max_lines))
    /\ UNCHANGED <<rb, rb_ops>> /\ UnchangedSessions

BufQueries ==
    \/ \E max_lines \in BufMaxLines : GetLines(max_lines)
    \/ \E pattern \in BufPatterns, max_lines \in BufMaxLines :
        SearchString(pattern, max_lines)
    \/ \E pattern \in BufPatterns, max_lines \in BufMaxLines :
        SearchRegex(pattern, max_lines)
    \/ \E pattern \in BufPatterns, max_lines \in BufMaxLines :
        SearchWildcard(pattern, max_lines)

---------------------------------------------------------------------------
(* The locks.  self.lock of the manager, of each handler and of the        *)
(* RingBuffer of each handler are RLocks.  What a method does with the     *)
(* locks is a sequence of steps: take a lock, give it back, or sleep in    *)
(* the wait loop of kill; "with lock:" around a body is With(lock, body).  *)

RegistryLock == <<"registry", 0>>
SessionLock(h) == <<"session", h>>
BufferLock(h) == <<"buffer", h>>

With(lock, body) == <<<<"acquire", lock>>>> \o body \o <<<<"release", lock>>>>
\* time.sleep(0.1) in the wait loop of kill, until the process of h has exited
\* or the timeout has passed
WaitExit(h) == <<"sleep", <<"process", h>>>>

\* RingBuffer.append, get_lines, search_string, search_regex, search_wildcard
buffer_locks(h) == With(BufferLock(h), <<>>)

\* ProcessHandler.start, send_line, send_chars
start_locks(h) == With(SessionLock(h), <<>>)
\* ProcessHandler.get_status, get_output_lines, search_output
get_status_locks(h) == With(SessionLock(h), buffer_locks(h))
\* ProcessHandler.kill
kill_locks(h) == With(SessionLock(h), <<WaitExit(h)>>)
\* a cleanup that takes the handler out of the registry of its manager under
\* its own lock; C29 tells it from cleanup_locks
cleanup_locks_unregisters(h) == With(SessionLock(h), With(RegistryLock, <<>>))
\* ProcessHandler.cleanup
cleanup_locks(h) == With(SessionLock(h), <<>>)
\* ProcessHandler._process_output: a line is added to the buffer
process_output_append_locks(h) == With(SessionLock(h), buffer_locks(h))
\* ProcessHandler._process_output: the error of a reader is recorded, or the
\* process is polled
process_output_poll_locks(h) == With(SessionLock(h), <<>>)

RECURSIVE ForEach(_)
\* the steps of a loop over the handlers, rounds[h] being those of the round
\* of handler h
ForEach(rounds) ==
    IF rounds = <<>> THEN <<>> ELSE Head(rounds) \o ForEach(Tail(rounds))

LockSessions == 1..NumPids

\* ProcessManager.process_start: handler.start(), then the registration
process_start_locks(h) == start_locks(h) \o With(RegistryLock, <<>>)
\* a method of the manager called with a pid that is not registered
not_found_locks == With(RegistryLock, <<>>)
\* ProcessManager.process_status, stdio_get_lines, stdio_search_lines
process_status_locks(h) == With(RegistryLock, get_status_locks(h))
\* ProcessManager.stdio_send_line, stdio_send_chars
stdio_send_locks(h) == With(RegistryLock, start_locks(h))
\* ProcessManager.process_kill
process_kill_locks(h) == With(RegistryLock, kill_locks(h))
\* ProcessManager.process_remove of a session that is running, or is not
process_remove_locks(h, running) ==
    With(RegistryLock,
         (IF running THEN kill_locks(h) ELSE <<>>) \o cleanup_locks(h))
\* ProcessManager.process_list, all_search
process_list_locks == With(RegistryLock, ForEach([h \in LockSessions |-> get_status_locks(h)]))
\* ProcessManager.all_kill
all_kill_locks == With(RegistryLock, ForEach([h \in LockSessions |-> kill_locks(h)]))
\* ProcessManager.all_remove
all_remove_locks == With(RegistryLock, ForEach([h \in LockSessions |-> cleanup_locks(h)]))

\* the threads: two that call the manager, and the processor of each handler
Clients == {<<"client", i>> : i \in 1..2}
Processors == {<<"processor", h>> : h \in LockSessions}
LockThreads == Clients \cup Processors

\* what a thread may set out to do
Calls(t) ==
    IF t \in Clients
    THEN {not_found_locks, process_list_locks, all_kill_locks, all_remove_locks}
         \cup UNION {{get_status_locks(h), kill_locks(h), cleanup_locks(h),
                      process_start_locks(h), process_status_locks(h),
                      stdio_send_locks(h), process_kill_locks(h),
                      process_remove_locks(h, TRUE), process_remove_locks(h, FALSE)}
                     : h \in LockSessions}
    ELSE {process_output_append_locks(t[2]), process_output_poll_locks(t[2])}

\* the threads that hold the lock
Holders(lock) ==
    {t \in LockThreads : \E i \in 1..Len(threads[t].held) : threads[t].held[i] = lock}
\* the next step of the thread is to take the lock
Requests(t, lock) ==
    threads[t].todo # <<>> /\ Head(threads[t].todo) = <<"acquire", lock>>
\* the thread asks for a lock that another thread holds
Blocked(t) ==
    /\ threads[t].todo # <<>>
    /\ Head(threads[t].todo)[1] = "acquire"
    /\ Holders(Head(threads[t].todo)[2]) \ {t} # {}

UnchangedModel ==
    UNCHANGED <<rb, rb_ops, handlers, processes, caller, killed, nwritten,
                nfaults, query>>

Call(t) ==
    /\ threads[t].todo = <<>>
    /\ \E steps \in Calls(t) : threads' = [threads EXCEPT ![t].todo = steps]
    /\ UnchangedModel

\* lock.acquire() of an RLock: at once when the thread holds it already
Acquire(t) ==
    /\ threads[t].todo # <<>>
    /\ Head(threads[t].todo)[1] = "acquire"
    /\ ~Blocked(t)
    /\ threads' = [threads EXCEPT ![t].todo = Tail(@),
                                  ![t].held = Append(@, Head(threads[t].todo)[2])]
    /\ UnchangedModel

\* lock.release() at the end of a with block
Release(t) ==
    /\ threads[t].todo # <<>>
    /\ Head(threads[t].todo)[1] = "release"
    /\ threads' = [threads EXCEPT ![t].todo = Tail(@),
                                  ![t].held = SubSeq(@, 1, Len(@) - 1)]
    /\ UnchangedModel

\* the wait loop of kill ends: the process has exited, or the time is up
Sleep(t) ==
    /\ threads[t].todo # <<>>
    /\ Head(threads[t].todo)[1] = "sleep"
    /\ threads' = [threads EXCEPT ![t].todo = Tail(@)]
    /\ UnchangedModel

NextLocks ==
    \/ \E t \in LockThreads : Call(t)
    \/ \E t \in LockThreads : Acquire(t)
    \/ \E t \in LockThreads : Release(t)
    \/ \E t \in LockThreads : Sleep(t)

---------------------------------------------------------------------------
(* The specifications. *)

InitCommon ==
    /\ rb = RingBuffer(RbMaxSize) /\ rb_ops = 0
    /\ query = None
    /\ threads = None
    /\ processes = <<>>
    /\ caller = Idle
    /\ killed = {}

\* one handler, constructed by the caller, and the faults and output of Spec
Init ==
    /\ InitCommon
    /\ \E command \in {List(<<>>), List(<<"cat">>)} :
        handlers = <<ProcessHandler(command, BufferSize)>>
    /\ nwritten = 0 /\ nfaults = 0

Next == Sessions \/ Pipelines

Spec == Init /\ [][Next]_vars

\* a manager with no handler yet
InitMgr ==
    /\ InitCommon
    /\ handlers = <<>>
    /\ nwritten = 0 /\ nfaults = 0

\* the processes of SpecMgr write nothing and its readers meet no fault
NextMgr == Manager \/ QuietPipelines

SpecMgr == InitMgr /\ [][NextMgr]_vars

\* one handler whose process writes nothing and is sent input
NextIO ==
    \/ Sessions
    \/ QuietPipelines
    \/ \E h \in Handlers : ReaderFault(h)
    \/ \E h \in Handlers : ProcessorItem(h)
    \/ \E h \in Handlers : SendLine(h)
    \/ \E h \in Handlers : SendChars(h)

SpecIO == Init /\ [][NextIO]_vars

\* the lines the processes of SpecQuery have written
QueryLines == {<<"a", "\n">>, ERROR_PREFIX \o <<"a", "\n">>}
QueryOutputs == UNION {[1..n -> QueryLines] : n \in 0..MaxQueryLines}

RECURSIVE Captured(_, _)
\* the buffer after _process_output has appended these lines to b
Captured(b, lines) ==
    IF lines = <<>> THEN b ELSE Captured(append(b, lines[1]), Tail(lines))

\* the handler process_start makes for the process pid, once that has written
\* these lines and the threads of the handler have passed them on
Capturing(pid, lines) ==
    [start(ProcessHandler(List(<<"cat">>), QueryBufferSize),
           [ok |-> TRUE, pid |-> pid, err |-> ""]).s
        EXCEPT !.buffer = Captured(@, lines)]

\* a manager that has started one process or two, which have written lines
InitQuery ==
    /\ rb = RingBuffer(RbMaxSize) /\ rb_ops = 0
    /\ query = None
    /\ threads = None
    /\ caller = Idle
    /\ killed = {}
    /\ nwritten = 0 /\ nfaults = 0
    /\ \E n \in 1..NumPids :
        \E out \in [1..n -> QueryOutputs] :
            /\ handlers = [h \in 1..n |-> Capturing(h, out[h])]
            /\ processes = [pid \in 1..n |-> pid]

SpecQuery == InitQuery /\ [][Queries]_vars

\* no thread has called anything yet
InitLocks ==
    /\ rb = RingBuffer(RbMaxSize) /\ rb_ops = 0
    /\ query = None
    /\ handlers = <<>> /\ processes = <<>>
    /\ caller = Idle
    /\ killed = {}
    /\ nwritten = 0 /\ nfaults = 0
    /\ threads = [t \in LockThreads |-> [todo |-> <<>>, held |-> <<>>]]

SpecLocks == InitLocks /\ [][NextLocks]_vars

\* one handler, started, with a buffer that holds all that its process writes
InitPipe ==
    /\ InitCommon
    /\ handlers = <<start(ProcessHandler(List(<<"cat">>), QueryBufferSize),
                          [ok |-> TRUE, pid |-> 1, err |-> ""]).s>>
    /\ nwritten = 0 /\ nfaults = 0

\* the process writes text and exits, and the threads pass the text on
NextPipe ==
    \/ \E h \in Handlers : ProcWriteText(h)
    \/ \E h \in Handlers : ProcExit(h)
    \/ \E h \in Handlers : ReaderRead(h)
    \/ \E h \in Handlers : ReaderEof(h)
    \/ \E h \in Handlers : ProcessorGet(h)
    \/ \E h \in Handlers : ProcessorItem(h)
    \/ \E h \in Handlers : ProcessorFlush(h)
    \/ \E h \in Handlers : ProcessorPoll(h)

SpecPipe == InitPipe /\ [][NextPipe]_vars

\* the threads of the handler are scheduled: a step that a thread can take
\* for ever is taken
FairPipe ==
    /\ WF_vars(\E h \in Handlers : ReaderRead(h))
    /\ WF_vars(\E h \in Handlers : ReaderEof(h))
    /\ WF_vars(\E h \in Handlers : ProcessorGet(h))
    /\ WF_vars(\E h \in Handlers : ProcessorItem(h))
    /\ WF_vars(\E h \in Handlers : ProcessorFlush(h))
    /\ WF_vars(\E h \in Handlers : ProcessorPoll(h))

\* the process writes little and exits, and the threads are scheduled
NextDrain ==
    \/ \E h \in Handlers : ProcWrite(h)
    \/ \E h \in Handlers : ProcExit(h)
    \/ \E h \in Handlers : ReaderRead(h)
    \/ \E h \in Handlers : ReaderEof(h)
    \/ \E h \in Handlers : ProcessorGet(h)
    \/ \E h \in Handlers : ProcessorItem(h)
    \/ \E h \in Handlers : ProcessorFlush(h)
    \/ \E h \in Handlers : ProcessorPoll(h)

SpecDrain == InitPipe /\ [][NextDrain]_vars /\ FairPipe

\* the process of SpecEcho may be sent more
EchoRoom(h) == nwritten + Len(handlers[h].stdin) < MaxEcho

\* one started handler whose process echoes what it is sent and does not
\* exit; the process and the threads are scheduled
\* the texts sent to the echoing process
EchoTexts == {<<"a">>, <<"e'">>, <<"a", "\n">>}

\* send_line and send_chars on the session of the echoing process
EchoSendLine(h) ==
    /\ caller = Idle
    /\ EchoRoom(h)
    /\ \E line \in EchoTexts : Update(h, send_line(handlers[h], line).s)
    /\ UnchangedCaller /\ UnchangedBuf /\ UnchangedEnv

EchoSendChars(h) ==
    /\ caller = Idle
    /\ EchoRoom(h)
    /\ \E chars \in EchoTexts : Update(h, send_chars(handlers[h], chars).s)
    /\ UnchangedCaller /\ UnchangedBuf /\ UnchangedEnv

NextEcho ==
    \/ \E h \in Handlers : EchoSendLine(h)
    \/ \E h \in Handlers : EchoSendChars(h)
    \/ \E h \in Handlers : ProcEcho(h)
    \/ \E h \in Handlers : ReaderRead(h)
    \/ \E h \in Handlers : ProcessorGet(h)
    \/ \E h \in Handlers : ProcessorItem(h)
    \/ \E h \in Handlers : ProcessorFlush(h)
    \/ \E h \in Handlers : ProcessorPoll(h)

SpecEcho ==
    /\ InitPipe /\ [][NextEcho]_vars
    /\ WF_vars(\E h \in Handlers : ProcEcho(h))
    /\ FairPipe

\* one started handler that the caller kills and cleans up, with the
\* process, the threads and the wait of kill scheduled: a signalled process
\* dies, and the wait loop of kill ends at its timeout
NextStop ==
    \/ \E h \in Handlers : KillBegin(h)
    \/ \E h \in Handlers : KillEnd(h)
    \/ \E h \in Handlers : Cleanup(h)
    \/ Pipelines

SpecStop ==
    /\ InitPipe /\ [][NextStop]_vars
    /\ WF_vars(\E h \in Handlers : ProcDie(h))
    /\ WF_vars(\E h \in Handlers : KillEnd(h))
    /\ FairPipe

InitBuf ==
    /\ InitCommon
    /\ handlers = <<>>
    /\ nwritten = 0 /\ nfaults = 0

NextBuf == Clear \/ \E line \in Lines : Append_(line)

SpecBuf == InitBuf /\ [][NextBuf]_vars

\* a RingBuffer that is appended to, cleared, read and searched
NextBufQuery == NextBuf \/ BufQueries

SpecBufQuery == InitBuf /\ [][NextBufQuery]_vars

\* a RingBuffer that is appended to and cleared, the last line appended
\* being remembered
NextBufLog == Clear \/ \E line \in Lines : AppendLine(line)

SpecBufLog == InitBuf /\ [][NextBufLog]_vars

---------------------------------------------------------------------------
(* The properties. *)

\* the exit code of an "error: Exit code n" state
IsExitCodeError(state) == state[1] = "error: Exit code"
\* Completed, or any Error variant
Terminal(state) == state = Completed \/ state = ErrorState \/ IsExitCodeError(state)

(* C1.  After any sequence of append calls, whatever the lines hold, the   *)
(* UTF-8 byte lengths of the retained lines sum to at most max_size_bytes. *)
C1_CapacityInvariant == SumBytes(rb.buffer) <= rb.max_size_bytes

(* C2.  A step of get_status or of the processor's termination check that  *)
(* takes a session from Running to Completed or to an exit-code Error      *)
(* finds the reader queue and the line accumulator empty.                  *)
C2_ExitTransitionDrained ==
    [][\A h \in Handlers :
        (/\ GetStatus(h) \/ ProcessorPoll(h)
         /\ handlers[h].state = Running
         /\ handlers'[h].state # Running)
        => /\ handlers[h].io_queue = <<>>
           /\ handlers[h].current_line = <<>>]_vars

(* C3.  Completed and every Error variant are terminal: no step changes a  *)
(* session's state once it is one of them.                                 *)
C3_TerminalStatesStay ==
    [][\A h \in Handlers :
        Terminal(handlers[h].state) => handlers'[h].state = handlers[h].state]_vars

(* C4.  Once a session's state is Completed or Error, no step changes the  *)
(* lines of its buffer.                                                    *)
C4_NoOutputAfterTerminal ==
    [][\A h \in Handlers :
        Terminal(handlers[h].state)
        => handlers'[h].buffer.buffer = handlers[h].buffer.buffer]_vars

(* C5.  After a kill of a Running session has returned success, the        *)
(* process has exited, stop_event is set, and get_status reports           *)
(* Completed, at the return and at every later moment.                     *)
C5_KilledStaysCompleted ==
    \A h \in killed :
        ~Locked(h)
        => /\ handlers[h].exit_status # None
           /\ handlers[h].stop_event
           /\ get_status(handlers[h]).ret.state = Completed

(* C6.  When the wait loop of kill ends with the process still alive, kill *)
(* returns a failure and leaves self.state and stop_event as they were     *)
(* when it was called; the threads stay where they are and a second kill   *)
(* passes the checks again.                                                *)
C6_KillTimeoutKeepsState ==
    [][\A h \in Handlers :
        (KillEnd(h) /\ handlers[h].exit_status = None)
        => /\ ~IsSuccess(kill_end(handlers[h]).ret)
           /\ handlers'[h].state = caller.state
           /\ handlers'[h].stop_event = caller.stop_event
           /\ handlers'[h].processor = handlers[h].processor
           /\ handlers'[h].reader = handlers[h].reader
           /\ kill_begin(handlers'[h]).wait]_vars

\* a kill has timed out on a Running session: the signal is sent, the process
\* is alive, the state is Running and stop_event is clear
C6_Witness ==
    \E h \in Handlers :
        /\ caller = Idle
        /\ handlers[h].signalled /\ handlers[h].exit_status = None
        /\ handlers[h].state = Running /\ ~handlers[h].stop_event

C8_SpawnFailure ==
    [][\A h \in Handlers :
        (/\ Start(h)
         /\ handlers[h].state = Initialized
         /\ ~handlers'[h].process)
        => /\ handlers'[h].state = ErrorState
           /\ handlers'[h].error # None
           /\ handlers'[h].pid = NoPid
           /\ handlers'[h].processor = "none"
           /\ \A src \in Sources : handlers'[h].reader[src] = "none"
           /\ \A spawn \in SpawnFailures :
                start(handlers[h], spawn).ret = <<Failed(spawn.err), NoPid>>]_vars

\* a session after a failed spawn
C8_Witness ==
    \E h \in Handlers :
        /\ handlers[h].state = ErrorState
        /\ handlers[h].error = Some("Command not found")
        /\ ~handlers[h].process
        /\ handlers[h].processor = "none"

(* C9.  Every registered session has a process, a state other than         *)
(* Initialized, and the pid it is registered under; process_start changes  *)
(* the registry only when start succeeded, and then by the entry for the   *)
(* pid it returns; on an empty or non-list command or a failed spawn it    *)
(* returns a failure and no pid and leaves the registry as it was.         *)
C9_RegisteredOnSuccessOnly ==
    /\ \A pid \in DOMAIN processes :
        /\ handlers[processes[pid]].process
        /\ handlers[processes[pid]].state # Initialized
        /\ handlers[processes[pid]].pid = pid
    /\ caller = Idle
       => \A command \in ManagerCommands,
             spawn \in SpawnFailures \cup Spawned(Pids \ LivePids) :
            LET r == process_start(handlers, processes, command, spawn)
            IN  IF Falsy(command) \/ command.type # "list" \/ ~spawn.ok
                THEN /\ ~IsSuccess(r.ret[1]) /\ r.ret[2] = NoPid
                     /\ r.processes = processes
                ELSE /\ r.ret = <<Success, spawn.pid>>
                     /\ DOMAIN r.processes = DOMAIN processes \cup {spawn.pid}
                     /\ r.handlers[r.processes[spawn.pid]].pid = spawn.pid
                     /\ \A pid \in DOMAIN processes \ {spawn.pid} :
                            r.processes[pid] = processes[pid]

\* two process_start calls have succeeded and both sessions are registered
C9_Witness ==
    /\ Len(handlers) = 2
    /\ DOMAIN processes = {handlers[1].pid, handlers[2].pid}
    /\ handlers[1].pid # handlers[2].pid

(* C10.  get_status on a Running session whose process has exited stores  *)
(* and returns Completed for exit code 0 and the exit-code Error           *)
(* otherwise; while the process is alive it returns Running; it returns    *)
(* Running for no session whose process has exited.                        *)
C10_StatusPollsExit ==
    \A h \in Handlers :
        LET s == handlers[h]
            r == get_status(s)
        IN  (~Locked(h) /\ s.process)
            => /\ (s.state = Running /\ s.exit_status # None)
                  => /\ r.ret.state = IF s.exit_status[1] = 0
                                      THEN Completed
                                      ELSE ExitCodeError(s.exit_status[1])
                     /\ r.s.state = r.ret.state
               /\ (s.state = Running /\ s.exit_status = None)
                  => r.ret.state = Running /\ r.s.state = Running
               /\ s.exit_status # None => r.ret.state # Running

\* a Running session whose process has exited with code 1 and is not yet
\* reaped: get_status stores the exit-code Error
C10_Witness ==
    \E h \in Handlers :
        /\ caller = Idle
        /\ handlers[h].state = Running
        /\ handlers[h].exit_status = Some(1)
        /\ handlers[h].returncode = None
        /\ get_status(handlers[h]).s.state = ExitCodeError(1)

(* C20.  An append of a line whose UTF-8 length exceeds max_size_bytes    *)
(* leaves the buffer holding one entry, the trailing max_size_bytes bytes  *)
(* of the line, with current_size equal to max_size_bytes, whatever the    *)
(* buffer held before.                                                     *)
C20_OversizedLineAlone ==
    [][\A line \in Lines :
        (Append_(line) /\ Len(encode(line)) > rb.max_size_bytes)
        => /\ Len(rb'.buffer) = 1
           /\ encode(rb'.buffer[1]) = LastN(encode(line), rb.max_size_bytes)
           /\ rb'.current_size = rb.max_size_bytes]_vars

(* C11.  send_line and send_chars on a session whose state is not         *)
(* Running, that has no process, or whose input stream is closed return a  *)
(* failure, write nothing and leave the session as it is.                  *)
C11_SendNeedsRunning ==
    \A h \in Handlers : \A text \in Texts :
        LET s == handlers[h]
        IN  (~Locked(h) /\ (s.state # Running \/ ~s.process \/ ~s.stdin_open))
            => /\ ~IsSuccess(send_line(s, text).ret)
               /\ send_line(s, text).s = s
               /\ ~IsSuccess(send_chars(s, text).ret)
               /\ send_chars(s, text).s = s

\* a session that was sent input while Running and is Completed now, on which
\* send_line fails
C11_Witness ==
    \E h \in Handlers :
        /\ caller = Idle
        /\ handlers[h].state = Completed
        /\ handlers[h].stdin # <<>>
        /\ send_line(handlers[h], <<"a">>).ret = Failed("Process not in running state")

(* C12.  When all_kill returns success, every session that was registered *)
(* in state Running when it was called has a process that has exited and   *)
(* reports Completed.                                                      *)
C12_AllKillCompletesRunning ==
    [][(AllKillEnd /\ caller'.pc = "idle"
        /\ all_kill_end(handlers, caller.todo, caller.errors).ret = Success)
       => \A h \in caller.running :
            /\ handlers'[h].exit_status # None
            /\ get_status(handlers'[h]).ret.state = Completed]_vars

(* C13.  all_kill adds the pid of the kill it waited for to its errors     *)
(* exactly when the process was still alive at the end of the wait, and    *)
(* returns success when it has collected no error and otherwise a failure  *)
(* holding the errors collected; all_remove, none of whose steps can fail, *)
(* returns success.                                                        *)
C13_AggregatedFailures ==
    /\ [](caller = Idle => all_remove(handlers, processes).ret = Success)
    /\ [][AllKillEnd
          => LET r == all_kill_end(handlers, caller.todo, caller.errors)
                 timed_out == handlers[caller.h].exit_status = None
             IN  /\ {e[1] : e \in {r.errors[i] : i \in 1..Len(r.errors)}}
                      = {e[1] : e \in {caller.errors[i] : i \in 1..Len(caller.errors)}}
                        \cup (IF timed_out THEN {caller.pid} ELSE {})
                 /\ ~r.wait
                    => /\ r.ret = Success <=> r.errors = <<>>
                       /\ r.errors # <<>> => r.ret = Failed(r.errors)]_vars

\* an all_kill that has collected the failure of a first kill and is about
\* to see its second kill succeed: it returns a failure naming the first pid
C13_Witness ==
    /\ caller.pc = "all_kill"
    /\ caller.errors # <<>>
    /\ handlers[caller.h].exit_status # None
    /\ all_kill_end(handlers, caller.todo, caller.errors).ret = Failed(caller.errors)

(* C15.  process_remove of a registered pid returns success and leaves the *)
(* pid out of the registry, also when the kill of the Running session      *)
(* timed out; of a pid not registered it returns a failure and changes     *)
(* nothing.                                                                *)
C15_RemoveAlwaysRemoves ==
    /\ caller = Idle
       => \A pid \in Pids :
            LET r == process_remove_begin(handlers, processes, pid)
            IN  IF Registered(processes, pid)
                THEN ~r.wait => r.ret = Success /\ ~Registered(r.processes, pid)
                ELSE /\ r.ret = Failed("Process not found")
                     /\ r.handlers = handlers /\ r.processes = processes
    /\ caller.pc = "process_remove"
       => LET r == process_remove_end(handlers, processes, caller.pid)
          IN  r.ret = Success /\ ~Registered(r.processes, caller.pid)

\* a session removed after its kill timed out: out of the registry, still
\* marked Running, its process signalled and alive
C15_Witness ==
    \E h \in Handlers :
        /\ caller = Idle
        /\ ~Registered(processes, handlers[h].pid)
        /\ handlers[h].state = Running /\ handlers[h].stop_event
        /\ handlers[h].signalled /\ handlers[h].exit_status = None

(* C16.  A step that deletes a session's registry entry leaves the session *)
(* with stop_event set, its input stream closed, and its process exited or *)
(* signalled; a step that gives the entry to another session finds the     *)
(* process of the first one exited.                                        *)
C16_ReleasedBeforeDeleted ==
    [][\A pid \in DOMAIN processes :
        LET h == processes[pid]
        IN  /\ ~Registered(processes', pid)
               => /\ handlers'[h].stop_event
                  /\ ~handlers'[h].stdin_open
                  /\ handlers'[h].exit_status # None \/ handlers'[h].signalled
            /\ (Registered(processes', pid) /\ processes'[pid] # h)
               => handlers'[h].exit_status # None]_vars

\* a session deleted from the registry whose process was alive at the
\* deletion and is signalled
C16_Witness ==
    \E h \in Handlers :
        /\ handlers[h].process
        /\ ~Registered(processes, handlers[h].pid)
        /\ handlers[h].stop_event /\ ~handlers[h].stdin_open
        /\ handlers[h].signalled /\ handlers[h].exit_status = None

(* C17.  all_remove deletes the entry of every session whose state is not  *)
(* Running and leaves every session whose state is Running registered and  *)
(* untouched.                                                              *)
C17_AllRemoveSparesRunning ==
    caller = Idle
    => LET r == all_remove(handlers, processes)
       IN  /\ DOMAIN r.processes
                = {pid \in DOMAIN processes : handlers[processes[pid]].state = Running}
           /\ \A pid \in DOMAIN r.processes :
                /\ r.processes[pid] = processes[pid]
                /\ r.handlers[processes[pid]] = handlers[processes[pid]]

\* a registry of a Running session and of one with an exit-code Error, of
\* which all_remove deletes the second and keeps the first
C17_Witness ==
    /\ caller = Idle
    /\ Cardinality(DOMAIN processes) = 2
    /\ \E p, q \in DOMAIN processes :
        /\ handlers[processes[p]].state = Running
        /\ handlers[processes[q]].state = ExitCodeError(1)
        /\ DOMAIN all_remove(handlers, processes).processes = {p}
        /\ all_remove(handlers, processes).handlers[processes[q]].stop_event

(* C19.  process_list returns one (pid, command, state) tuple for each pid *)
(* of the registry and no other, with the command of the session and the   *)
(* state it has once a Running session was polled for its exit.            *)
C19_ListIsRegistry ==
    caller = Idle
    => LET r == process_list(handlers, processes).ret
       IN  /\ Len(r) = Cardinality(DOMAIN processes)
           /\ {r[i][1] : i \in 1..Len(r)} = DOMAIN processes
           /\ \A i \in 1..Len(r) :
                LET s == handlers[processes[r[i][1]]]
                IN  /\ r[i][2] = s.command
                    /\ r[i][3] = IF s.state = Running /\ s.exit_status # None
                                 THEN IF s.exit_status[1] = 0
                                      THEN Completed
                                      ELSE ExitCodeError(s.exit_status[1])
                                 ELSE s.state

\* two registered sessions, one of them Running with a process that exited
\* with code 1 and is not yet reaped: process_list reports its exit
C19_Witness ==
    /\ caller = Idle
    /\ Cardinality(DOMAIN processes) = 2
    /\ \E pid \in DOMAIN processes :
        /\ handlers[processes[pid]].state = Running
        /\ handlers[processes[pid]].exit_status = Some(1)
        /\ \E i \in 1..2 :
            process_list(handlers, processes).ret[i] =
                <<pid, List(<<"cat">>), ExitCodeError(1)>>

\* the lines of buffer b that match pattern in the mode search_type
MatchingLines(b, search_type, pattern) ==
    CASE search_type = "string" ->
             SelectSeq(b.buffer, LAMBDA line : Contains(line, pattern))
      [] search_type = "regex" ->
             IF InvalidRegex(pattern) THEN <<>>
             ELSE SelectSeq(b.buffer, LAMBDA line : Contains(line, pattern))
      [] search_type = "wildcard" ->
             SelectSeq(b.buffer, LAMBDA line : strip(line) = pattern)

\* the search of a session fails: its pattern is not a regular expression
SearchFails(search_type, pattern) == search_type = "regex" /\ InvalidRegex(pattern)

RECURSIVE MatchingPairs(_, _, _, _)
\* for each registered session with a matching line, its pid and the last
\* max_lines of its matching lines
MatchingPairs(todo, search_type, pattern, max_lines) ==
    IF todo = <<>> THEN <<>>
    ELSE LET m == MatchingLines(handlers[todo[1][2]].buffer, search_type, pattern)
         IN  (IF m = <<>> THEN <<>>
              ELSE <<<<todo[1][1], LastMatches(m, max_lines)>>>>)
             \o MatchingPairs(Tail(todo), search_type, pattern, max_lines)

\* C14: all_search with a valid search type and a non-empty pattern returns
\* one pair (pid, matches) for exactly the registered sessions whose buffer
\* holds a matching line, matches being the last max_lines_per_pid matching
\* lines of the session in buffer order, and the entry with pid -1 only if
\* the search of some session failed, whatever the lines contain.
C14_AllSearchExact ==
    (/\ query # None
     /\ query[1].op = "all_search"
     /\ ~InvalidSearchType(query[1].args[1])
     /\ query[1].args[2] \notin {NoPattern, <<>>})
    => LET ret == query[1].ret
           search_type == query[1].args[1]
           pattern == query[1].args[2]
       IN  /\ SelectSeq(ret, LAMBDA e : e[1] # ErrorPid)
                = MatchingPairs(Items(processes), search_type, pattern,
                                query[1].args[3])
           /\ (\E i \in 1..Len(ret) : ret[i][1] = ErrorPid)
                => SearchFails(search_type, pattern)

(* C18.  process_status, process_kill, process_remove, stdio_send_line,    *)
(* stdio_send_chars, stdio_get_lines and stdio_search_lines, called with a *)
(* pid that is not in the registry, each return a not-found failure and    *)
(* change neither the registry nor a session; this is so of every pid      *)
(* that a process_remove or all_remove has taken out of the registry.      *)
C18_UnregisteredNotFound ==
    \A pid \in Pids \ DOMAIN processes :
        /\ LET r == process_status(handlers, processes, pid)
           IN  /\ r.ret.state = <<"error: Process not found">>
               /\ r.handlers = handlers
        /\ LET r == process_kill_begin(handlers, processes, pid)
           IN  /\ r.ret = Failed("Process not found")
               /\ ~r.wait /\ r.handlers = handlers
        /\ LET r == process_remove_begin(handlers, processes, pid)
           IN  /\ r.ret = Failed("Process not found")
               /\ ~r.wait /\ r.handlers = handlers /\ r.processes = processes
        /\ \A text \in Texts :
            /\ stdio_send_line(handlers, processes, pid, text)
                 = [handlers |-> handlers, ret |-> Failed("Process not found")]
            /\ stdio_send_chars(handlers, processes, pid, text)
                 = [handlers |-> handlers, ret |-> Failed("Process not found")]
        /\ \A max_lines \in MaxLinesArgs :
            /\ stdio_get_lines(handlers, processes, pid, max_lines)
                 = <<ProcessNotFoundError(pid)>>
            /\ \A search_type \in SearchTypes, pattern \in Patterns :
                stdio_search_lines(handlers, processes, pid, search_type, pattern,
                                   max_lines)
                  = <<ProcessNotFoundError(pid)>>

\* the pid of a session that a process_remove took out of the registry while
\* another session stays registered: the operations on it report not found
C18_Witness ==
    \E h \in Handlers :
        /\ handlers[h].process /\ handlers[h].stop_event
        /\ ~Registered(processes, handlers[h].pid)
        /\ DOMAIN processes # {}
        /\ process_status(handlers, processes, handlers[h].pid).ret.state
             = <<"error: Process not found">>
        /\ stdio_get_lines(handlers, processes, handlers[h].pid, 0)
             = <<ProcessNotFoundError(handlers[h].pid)>>

(* C21.  After every append and every clear, current_size is the sum of    *)
(* the UTF-8 byte lengths of the entries in the buffer: it is never        *)
(* negative, and it is 0 exactly when every entry is empty.                *)
C21_SizeIsSumOfBytes ==
    /\ rb.current_size = SumBytes(rb.buffer)
    /\ rb.current_size >= 0
    /\ rb.current_size = 0 <=> \A i \in 1..Len(rb.buffer) : rb.buffer[i] = <<>>

\* a step of SpecBufQuery that is a call of the read op, whose arguments and
\* return value the step leaves in query
Answered(op) == query' # None /\ query'[1].op = op
\* a step of SpecBufQuery that is a call of append
Appended == rb_ops' = rb_ops + 1 /\ rb'.buffer # <<>>

(* C22.  get_lines(n) with n > 0 returns the min(n, number retained) most  *)
(* recently appended retained lines in append order, and with n <= 0 all   *)
(* retained lines in append order; it leaves the buffer as it was.  The    *)
(* retained lines are in append order: an append drops the oldest entries  *)
(* only and adds its entry last.                                           *)
C22_GetLinesRecent ==
    [][/\ Answered("get_lines")
          => LET n == query'[1].args[1]
                 ret == query'[1].ret
                 retained == Len(rb.buffer)
                 k == IF n <= 0 \/ retained <= n THEN retained ELSE n
             IN  /\ rb' = rb
                 /\ Len(ret) = k
                 /\ \A i \in 1..k : ret[i] = rb.buffer[retained - k + i]
       /\ Appended
          => \E dropped \in 0..Len(rb.buffer) :
               SubSeq(rb'.buffer, 1, Len(rb'.buffer) - 1)
                 = SubSeq(rb.buffer, dropped + 1, Len(rb.buffer))]_vars

\* get_lines(1) answered with the newer of two retained lines
C22_Witness ==
    /\ query # None
    /\ query[1].op = "get_lines" /\ query[1].args = <<1>>
    /\ Len(rb.buffer) = 2 /\ rb.buffer[1] # rb.buffer[2]
    /\ query[1].ret = <<rb.buffer[2]>>

\* the search mode of a search method of the RingBuffer
ModeOf(op) ==
    CASE op = "search_string" -> "string"
      [] op = "search_regex" -> "regex"
      [] op = "search_wildcard" -> "wildcard"
SearchOps == {"search_string", "search_regex", "search_wildcard"}

\* the mode takes the pattern: it is a str, one that compiles in regex mode
\* and is not empty in wildcard mode
Accepted(search_type, pattern) ==
    /\ pattern # NoPattern
    /\ search_type = "regex" => ~InvalidRegex(pattern)
    /\ search_type = "wildcard" => pattern # <<>>

(* C23 as stated.  For every search mode, pattern and n, the search        *)
(* returns the matching lines of the buffer in buffer order, all of them   *)
(* when n <= 0 and the last n when n > 0, and leaves the buffer unchanged. *)
C23_SearchSubsequence ==
    [][\A op \in SearchOps :
        Answered(op)
        => /\ rb' = rb
           /\ query'[1].ret
                = LastMatches(MatchingLines(rb, ModeOf(op), query'[1].args[1]),
                              query'[1].args[2])]_vars

(* C23, amended.  For every search mode, every pattern the mode accepts    *)
(* and every n, the search returns the matching lines of the buffer in     *)
(* buffer order, all of them when n <= 0 and the last n when n > 0; for    *)
(* every pattern it leaves the buffer unchanged.                           *)
C23_SearchSubsequenceAccepted ==
    [][\A op \in SearchOps :
        Answered(op)
        => /\ rb' = rb
           /\ Accepted(ModeOf(op), query'[1].args[1])
              => query'[1].ret
                   = LastMatches(MatchingLines(rb, ModeOf(op), query'[1].args[1]),
                                 query'[1].args[2])]_vars

\* a search with n = 1 answered with the newer of two matching lines, the
\* buffer holding a line that does not match
C23_Witness ==
    /\ query # None
    /\ query[1].op = "search_string" /\ query[1].args = <<<<"a">>, 1>>
    /\ Len(MatchingLines(rb, "string", <<"a">>)) = 2
    /\ Len(rb.buffer) = 3
    /\ MatchingLines(rb, "string", <<"a">>)[1] # MatchingLines(rb, "string", <<"a">>)[2]
    /\ query[1].ret = <<MatchingLines(rb, "string", <<"a">>)[2]>>

(* C24.  In every search mode, a search of the buffer with an empty or an  *)
(* undefined pattern returns one error entry: never lines of the buffer,   *)
(* never an empty result.                                                  *)
C24_EmptyPatternIsError ==
    [][\A op \in SearchOps :
        (Answered(op) /\ query'[1].args[1] \in {NoPattern, <<>>})
        => /\ Len(query'[1].ret) = 1
           /\ StartsWithError(query'[1].ret[1])
           /\ \A i \in 1..Len(rb.buffer) : rb.buffer[i] # query'[1].ret[1]]_vars

(* C27.  While the caller is in the wait loop of kill on a session, the    *)
(* lock of the session is free: the processor thread can commit the item   *)
(* it has taken from the queue, and a call of get_status can proceed.      *)
C27_SessionLockFreeInKillWait ==
    \A h \in Handlers :
        (caller.pc = "kill" /\ caller.h = h)
        => /\ handlers[h].processor = "item" => ENABLED ProcessorItem(h)
           /\ ENABLED GetStatus(h)

(* C28.  While process_kill or all_kill waits for the process of one       *)
(* session to exit, the lock of the registry is free: process_status of    *)
(* another registered session can proceed, and so can a process_start that *)
(* registers a new session.                                                *)
C28_RegistryLockFreeInKillWait ==
    caller.pc \in {"process_kill", "all_kill"}
    => /\ (\E pid \in DOMAIN processes : processes[pid] # caller.h)
          => ENABLED ProcessStatus
       /\ Len(handlers) < MaxStarts => ENABLED ProcessStart

\* the place of a lock in the order registry, session, buffer
LockRank(lock) ==
    CASE lock[1] = "registry" -> 0
      [] lock[1] = "session" -> 1
      [] lock[1] = "buffer" -> 2

\* every thread of the set waits for a lock that a thread of the set holds
Deadlocked(S) ==
    \A t \in S :
        /\ Blocked(t)
        /\ (Holders(Head(threads[t].todo)[2]) \ {t}) \cap S # {}

(* C29.  No thread asks for the lock of the registry while it holds the    *)
(* lock of a session or of a buffer: a thread that asks for a lock holds   *)
(* only that lock and locks that come before it in the order registry,     *)
(* session, buffer.  No set of threads is deadlocked.                      *)
C29_LockOrderNoDeadlock ==
    /\ \A t \in LockThreads :
        Requests(t, RegistryLock)
        => \A i \in 1..Len(threads[t].held) : threads[t].held[i] = RegistryLock
    /\ \A t \in LockThreads :
        (threads[t].todo # <<>> /\ Head(threads[t].todo)[1] = "acquire")
        => \A i \in 1..Len(threads[t].held) :
            \/ threads[t].held[i] = Head(threads[t].todo)[2]
            \/ LockRank(threads[t].held[i]) < LockRank(Head(threads[t].todo)[2])
    /\ \A S \in SUBSET LockThreads : S # {} => ~Deadlocked(S)

\* a client sleeps in the wait loop of a kill with the locks of the registry
\* and of the session, the other client waits for the registry and the
\* processor of the session for the lock of the session
C29_Witness ==
    \E c \in Clients, h \in LockSessions :
        /\ threads[c].held = <<RegistryLock, SessionLock(h)>>
        /\ Head(threads[c].todo) = WaitExit(h)
        /\ \E d \in Clients \ {c} : Requests(d, RegistryLock) /\ Blocked(d)
        /\ Requests(<<"processor", h>>, SessionLock(h))
        /\ Blocked(<<"processor", h>>)

RECURSIVE JoinLines(_)
\* "".join(lines)
JoinLines(lines) ==
    IF lines = <<>> THEN <<>> ELSE Head(lines) \o JoinLines(Tail(lines))

\* the bytes the processor has taken from the queue, as the handler holds
\* them: the lines of the buffer, the line being put together, and the byte
\* of the item in hand
Assembled(s) ==
    encode(JoinLines(s.buffer.buffer)) \o s.current_line
    \o (IF s.item # None /\ s.item[1][1] # "error" THEN <<s.item[1][2]>> ELSE <<>>)

\* the bytes of the items that a step takes from the head of the queue
Taken(s, t) ==
    IF Len(t.io_queue) < Len(s.io_queue) /\ Head(s.io_queue)[1] # "error"
    THEN <<Head(s.io_queue)[2]>>
    ELSE <<>>

(* C30.  When nothing is evicted, the lines of the buffer, joined, with    *)
(* the line being put together after them, are at all times the bytes the  *)
(* processor has taken from the queue, in the order it took them: a step    *)
(* adds the byte it takes at the end and changes nothing before it.  The    *)
(* queue gives the bytes of a stream in the order its reader read them.     *)
C30_CommittedIsDequeuedPrefix ==
    [][\A h \in Handlers :
        LET s == handlers[h]
            t == handlers'[h]
        IN  /\ Assembled(t) = Assembled(s) \o Taken(s, t)
            /\ \/ t.io_queue = s.io_queue
               \/ s.io_queue # <<>> /\ t.io_queue = Tail(s.io_queue)
               \/ \E src \in Sources :
                    /\ s.pipe[src] # <<>>
                    /\ t.io_queue = Append(s.io_queue, <<src, Head(s.pipe[src])>>)
                    /\ t.pipe[src] = Tail(s.pipe[src])]_vars

(* C25.  With no kill, no cleanup and no reader fault, and no call of      *)
(* get_status, a started process that exits with status 0 leads to the     *)
(* state Completed, and one that exits with another status to the Error    *)
(* state of that exit code; the command stays the one it was started with. *)
C25_ExitLeadsToState ==
    /\ [](handlers[1].command = List(<<"cat">>))
    /\ \A code \in ExitCodes :
        (handlers[1].exit_status = Some(code))
        ~> (handlers[1].state = ExitState(code))

\* the processor has seen the exit of a process that wrote something, and
\* the session is Completed
C25_Witness ==
    /\ handlers[1].exit_status = Some(0)
    /\ handlers[1].state = Completed
    /\ handlers[1].processor = "done"
    /\ handlers[1].buffer.buffer # <<>>

\* the text of the buffer: its lines, joined
BufferText(s) == JoinLines(s.buffer.buffer)

\* send_line or send_chars has returned success with this text written to
\* the process, which has all of it yet to echo
EchoPending(s, text) == s.state = Running /\ s.stdin = encode(text)

(* C26.  On a Running session whose process echoes its input, with the     *)
(* process, the readers and the processor scheduled fairly, a text that     *)
(* send_line or send_chars has written to the process is in the end in the  *)
(* buffer, terminated by a newline or not.                                  *)
C26_EchoReachesBuffer ==
    \A text \in EchoTexts \cup {<<"e'", "\n">>} :
        EchoPending(handlers[1], text)
        ~> Contains(BufferText(handlers[1]), text)

\* the processor of s has taken an error marker from the queue and recorded
\* its detail
ErrorRecorded(s) == s.process /\ s.error = Some("I/O error")

(* C31.  Once the processor has taken an error marker from the queue,      *)
(* recorded the detail and set the state to Error, it has stopped: no step  *)
(* takes a further item from the queue or commits a further line.           *)
C31_ErrorMarkerStopsProcessor ==
    [][\A h \in Handlers :
        ErrorRecorded(handlers[h])
        => /\ Len(handlers'[h].io_queue) >= Len(handlers[h].io_queue)
           /\ handlers'[h].buffer = handlers[h].buffer]_vars

(* C32.  A session whose process has not exited is in no state that stands *)
(* for an exit, Completed or Error with an exit code, whatever the          *)
(* processor, get_status and the other calls have done; and an idle          *)
(* interval of the processor on such a process, with no stop signal, leaves  *)
(* the processor running: it flushes the partial line and polls, no more.    *)
C32_LiveProcessNotFinished ==
    /\ [](\A h \in Handlers :
            Alive(handlers[h])
            => handlers[h].state # Completed /\ ~IsExitCodeError(handlers[h].state))
    /\ [][\A h \in Handlers :
            /\ Alive(handlers[h]) /\ ~handlers[h].stop_event
            /\ handlers[h].processor \in {"flush", "poll"}
            => /\ handlers'[h].processor \in {"flush", "poll", "get"}
               /\ handlers'[h].io_queue = handlers[h].io_queue
                  \/ Len(handlers'[h].io_queue) > Len(handlers[h].io_queue)]_vars

\* the processor has flushed a partial line at an idle interval, polled the
\* live process and gone back to the queue; the session is still Running
C32_Witness ==
    /\ Alive(handlers[1]) /\ handlers[1].state = Running
    /\ handlers[1].buffer.buffer = <<<<"a">>>>
    /\ handlers[1].processor = "get"
    /\ handlers[1].current_line = <<>>

\* nothing the process of s wrote is still on its way to the buffer
Drained(s) ==
    /\ \A src \in Sources : s.pipe[src] = <<>>
    /\ s.io_queue = <<>> /\ s.item = None /\ s.current_line = <<>>

(* C33.  For a process that exits on its own, with no kill, no cleanup and *)
(* no reader fault, the processor has stopped only when the queue is empty  *)
(* and both readers have reached the end of their streams, and once the      *)
(* process has exited everything it wrote is in the end in the buffer.       *)
C33_ProcessorStopsAfterDrain ==
    /\ [](handlers[1].processor = "done"
            => /\ handlers[1].io_queue = <<>>
               /\ \A src \in Sources : handlers[1].reader[src] = "closed")
    /\ (handlers[1].exit_status # None) ~> Drained(handlers[1])

\* the three threads of the pipeline of s have ended, the readers having
\* closed their streams
PipelineStopped(s) ==
    s.processor = "done" /\ \A src \in Sources : s.reader[src] = "closed"

(* C34.  Once the stop signal of a started session is set, by a kill that  *)
(* succeeded or by cleanup, the processor does not go round its loop again,  *)
(* a reader that puts one more unit on the queue ends with it, and in the    *)
(* end the processor and both readers have ended and both streams are       *)
(* closed.                                                                   *)
C34_StopSignalEndsPipeline ==
    /\ [][\A h \in Handlers :
            handlers[h].stop_event /\ handlers[h].processor # "get"
            => handlers'[h].processor # "get"]_vars
    /\ [][\A h \in Handlers : \A src \in Sources :
            /\ handlers[h].stop_event
            /\ Len(handlers'[h].pipe[src]) < Len(handlers[h].pipe[src])
            => handlers'[h].reader[src] = "closed"]_vars
    /\ handlers[1].stop_event ~> PipelineStopped(handlers[1])

\* a kill succeeded while a byte was still in a pipe; the reader has put it
\* on the queue and ended, and the processor has ended without taking it
C34_Witness ==
    /\ handlers[1].stop_event /\ PipelineStopped(handlers[1])
    /\ handlers[1].io_queue # <<>>
    /\ handlers[1].state = Completed /\ handlers[1].stdin_open

(* C35.  cleanup can be called in every state a session reaches, started    *)
(* or not, cleaned up before or not, and a second call changes nothing: the *)
(* session after two calls is the session after one, in the signal sent to  *)
(* the process, the stop signal, the input stream, the state and all else.  *)
C35_CleanupIdempotent ==
    \A h \in Handlers :
        LET once == cleanup(handlers[h])
        IN  /\ once.stop_event
            /\ once.process => ~once.stdin_open
            /\ once.state = handlers[h].state
            /\ cleanup(once) = once

\* cleanup has been called on a session that was never started
C35_Witness ==
    /\ ~handlers[1].process /\ handlers[1].state = Initialized
    /\ handlers[1].stop_event
    /\ cleanup(handlers[1]) = handlers[1]

\* start has been called on s before: it spawned the process, or it failed
\* to and left the Error state
StartAttempted(s) == s.process \/ s.state # Initialized

(* C36.  A start call on a session that start was called on before, with   *)
(* a spawn that succeeded or one that failed, fails and changes nothing,    *)
(* whatever the system would do with the command now; so a session spawns   *)
(* at most one process and launches its threads at most once.               *)
C36_SecondStartFails ==
    \A h \in Handlers :
        StartAttempted(handlers[h])
        => \A spawn \in SpawnFailures \cup Spawned(Pids \ LivePids) :
            LET r == start(handlers[h], spawn)
            IN  r.s = handlers[h] /\ IsFailed(r.ret[1])

\* the entries of the buffer that stay when the k oldest are dropped
Kept(k) == SubSeq(rb.buffer, k + 1, Len(rb.buffer))

\* a step that appends line: it drops the k oldest entries, k the least
\* number that lets the new entry fit, none when it fits as it is, and adds
\* the line, or its trailing part, at the end
AppendKeepsSuffix ==
    LET line == query'[1].args[1]
        new  == rb'.buffer[Len(rb'.buffer)]
        max  == rb.max_size_bytes
    IN  /\ new \in {line, LastN(line, max)}
        /\ \E k \in 0..Len(rb.buffer) :
            /\ rb'.buffer = Append(Kept(k), new)
            /\ k > 0 => SumBytes(Kept(k - 1)) + Len(encode(new)) > max
            /\ SumBytes(rb.buffer) + Len(encode(new)) <= max => k = 0

(* C37, as stated.  Every append drops entries from the oldest end only,   *)
(* no more than the new entry needs to fit and none when it fits, and the    *)
(* retained lines are the last lines appended, whole but for the newest,     *)
(* which may be cut: the entry before the newest is the line the append      *)
(* before was given.                                                         *)
C37_RetainedSuffixWhole ==
    [][Answered("append")
        => /\ AppendKeepsSuffix
           /\ query # None /\ Len(rb'.buffer) >= 2
              => rb'.buffer[Len(rb'.buffer) - 1] = query[1].args[1]]_vars

(* C37, amended.  Every append drops entries from the oldest end only, no  *)
(* more than the new entry needs to fit and none when it fits, and adds the  *)
(* line last, cut to its trailing part when it exceeds the capacity: the     *)
(* retained lines are the last lines appended, each as append stored it.     *)
C37_RetainedSuffixAsStored ==
    [][Answered("append") => AppendKeepsSuffix]_vars

\* the third append has dropped the first line to make room: the buffer
\* holds the second and the third and is full
C37_Witness ==
    /\ rb_ops = 3 /\ query # None
    /\ rb.buffer = <<<<"a", "a">>, <<"a">>>>
    /\ query[1].args = <<<<"a">>>>

\* a line with something in it and no newline before its last character
WellFormedLine(line) ==
    line # <<>> /\ \A i \in 1..(Len(line) - 1) : line[i] # "\n"

(* C38.  Every line the processor has committed to the buffer is not empty *)
(* and has a newline, if it has one, as its last character only; a step     *)
(* that commits a line leaves the accumulator empty; and an idle interval   *)
(* with an empty accumulator commits nothing.                               *)
C38_CommittedLinesWellFormed ==
    /\ [](\A i \in 1..Len(handlers[1].buffer.buffer) :
            WellFormedLine(handlers[1].buffer.buffer[i]))
    /\ [][handlers'[1].buffer # handlers[1].buffer
            => handlers'[1].current_line = <<>>]_vars
    /\ [][/\ handlers[1].processor \in {"get", "flush", "poll"}
          /\ handlers[1].io_queue = <<>> /\ handlers[1].current_line = <<>>
          => handlers'[1].buffer = handlers[1].buffer]_vars

\* the processor has committed a line that ends with a newline and, at an
\* idle interval, a partial line
C38_Witness ==
    /\ handlers[1].buffer.buffer = <<<<"a", "\n">>, <<"a">>>>
    /\ handlers[1].current_line = <<>>

(* C39.  A session whose process exited on its own with a status other     *)
(* than 0 is never in the state Completed, whoever saw the exit first, the  *)
(* processor, get_status or a kill called after it.                         *)
C39_NonZeroExitNotCompleted ==
    \A h \in Handlers :
        /\ handlers[h].exit_status # None
        /\ handlers[h].exit_status[1] \in ExitCodes \ {0}
        => handlers[h].state # Completed

(* C40.  process_start never replaces an entry of the registry: a pid that *)
(* is registered stays registered to the same session, also when the        *)
(* system gives the pid of its reaped process to a new one, until a remove   *)
(* takes the entry out, and a session taken out has been cleaned up.         *)
C40_StartKeepsRegistryEntries ==
    [][\A pid \in DOMAIN processes :
        IF pid \in DOMAIN processes'
        THEN processes'[pid] = processes[pid]
        ELSE handlers'[processes[pid]].stop_event]_vars

====
